---- MODULE Spec2Model ----
(***************************************************************************)
(* A model of the NovoG93 signer: the PodCertificateRequest reconciler     *)
(* (src/src/controller.go), the CA holder and its hot reload               *)
(* (src/unnamed/part_006, src/src/ca_helper.go) and the resource store     *)
(* they talk to.  Durations and instants are whole seconds.                *)
(***************************************************************************)
EXTENDS Integers, Sequences, FiniteSets, TLC

(* ------------------------------ bounds -------------------------------- *)
\* Reconcile invocations of the request started by the workers together
\* (deliveries and re-deliveries).
MaxRuns == 2
\* Updates of the request made by other clients of the store.
MaxExternal == 1
\* CA generations the backing secret can go through: 1..MaxGen.
MaxGen == 2
MaxEvents == 2
MaxLoads == 2

(* ------------------------- program constants -------------------------- *)
Second == 1
Minute == 60
Hour == 3600
\* const minValidity = time.Hour
minValidity == Hour
\* const minRefresh = 30 * time.Minute
minRefresh == 30 * Minute
\* retry.DefaultRetry.Steps
DefaultRetrySteps == 5

\* The workers of the controller's pool (and replicas) that may hold the same request.
Workers == {"w1", "w2"}

OwnSignerName == "novog93.ghcr/signer"
OtherSignerName == "example.com/other"

\* A nil pointer and a set pointer (*int32, *metav1.Time).
Nil == <<>>
Ptr(v) == <<v>>
Deref(p) == p[1]

(* ------------------------------ state --------------------------------- *)
VARIABLES
    store,          \* the PodCertificateRequest in the API server: spec, status, resourceVersion
    present,        \* whether the request exists in the store
    externals,      \* updates of the request made so far by other clients
    clock,          \* time.Now(): one second passes between two invocations
    config,         \* SignerReconciler.Config
    caNil,          \* SignerReconciler.CA == nil
    caCert,         \* CAHelper: generation of the active certificate
    caKey,          \* CAHelper: generation of the active private key
    secret,         \* the CA secret: [kind, gen]
    faults,         \* the errors, besides conflict and not-found, the API server may answer with
    pc,             \* per worker: position inside Reconcile
    runs,           \* Reconcile invocations started so far
    got,            \* per worker: the object as r.Get returned it
    pcr,            \* per worker: the local copy `pcr`, as the invocation has changed it
    plan,           \* per worker: now, validity, refreshAt, template, CA generation at start
    rdCert,         \* per worker: what r.CA.GetCert() returned
    rdKey,          \* per worker: what r.CA.GetKey() returned
    attempts,       \* per worker: status-update attempts of this invocation
    conflicts,      \* per worker: how many of them ended in a conflict
    apiErr,         \* per worker: the error of the invocation's last call to the API server
    failure,        \* per worker: reason, message and error of the failure path
    ret,            \* per worker: (ctrl.Result, error) returned
    secretRet,      \* (ctrl.Result, error) the last SecretReconciler.Reconcile returned
    mgr,            \* the manager CreateManager built, its secret watcher and the watcher's queue
    IssuedCounter,  \* signer_certificates_issued_total, by validity_duration
    FailedCounter   \* signer_certificates_failed_total, by reason

vars == <<store, present, externals, clock, config, caNil, caCert, caKey, secret, faults,
          pc, runs, got, pcr, plan, rdCert, rdKey, attempts, conflicts, apiErr, failure, ret,
          secretRet, mgr, IssuedCounter, FailedCounter>>

storeVars == <<store, present, externals, faults>>
caVars == <<caNil, caCert, caKey, secret, secretRet, mgr>>
metricVars == <<IssuedCounter, FailedCounter>>

(* --------------------------- data values ------------------------------ *)
\* PodCertificateRequestSpec.PKIXPublicKey: what the bytes hold.
KeyBytes == { [enc |-> "der", alg |-> "rsa"],
              [enc |-> "der", alg |-> "ecdsa"],
              [enc |-> "der", alg |-> "ed25519"],
              [enc |-> "garbage", alg |-> "none"] }

\* PodCertificateRequestSpec.ProofOfPossession: what the string holds.  A proof is
\* empty, or not base64 ("some-proof"), or white space that decodes to no bytes, or
\* the base64 of a signature: its scheme, whether its length is odd, who made it
\* (the holder of the request's private key or someone else) and the bytes whose
\* SHA-256 it signs.
EmptyProof == [text |-> "empty", scheme |-> "none", odd |-> FALSE, by |-> "none", over |-> [enc |-> "none", alg |-> "none"]]
SomeProof == [text |-> "notbase64", scheme |-> "none", odd |-> FALSE, by |-> "none", over |-> [enc |-> "none", alg |-> "none"]]
BlankProof == [text |-> "blank", scheme |-> "none", odd |-> FALSE, by |-> "none", over |-> [enc |-> "none", alg |-> "none"]]
SignedProof(scheme, odd, by, over) ==
    [text |-> "base64", scheme |-> scheme, odd |-> odd, by |-> by, over |-> over]

\* generateRSASignature / generateECDSASignature: the proof the holder of the key makes
GeneratedProof(key) ==
    IF key.enc = "der" /\ key.alg = "rsa" THEN SignedProof("rsa-pkcs1v15", FALSE, "holder", key)
    ELSE IF key.enc = "der" /\ key.alg = "ecdsa" THEN SignedProof("ecdsa-raw", FALSE, "holder", key)
    ELSE SomeProof

EmptyStatus == [ CertificateChain |-> <<>>,
                 NotBefore |-> Nil, NotAfter |-> Nil, BeginRefreshAt |-> Nil,
                 Conditions |-> <<>> ]

NoPlan == [ now |-> 0, validity |-> 0, notAfter |-> 0, refreshAt |-> 0,
            keyUsage |-> {}, dnsName |-> <<>>, serial |-> <<>>, startGen |-> 0 ]
NoFailure == [ reason |-> "", message |-> "", err |-> "nil" ]
NoReturn == [ Requeue |-> FALSE, err |-> "pending" ]
NoPcr == [ spec |-> [ SignerName |-> "", PodName |-> "", PKIXPublicKey |-> [enc |-> "garbage", alg |-> "none"],
                      ProofOfPossession |-> EmptyProof, MaxExpirationSeconds |-> Nil ],
           resourceVersion |-> 0, status |-> EmptyStatus ]

\* x509.ParsePKIXPublicKey
ParsePKIXPublicKey(bytes) ==
    IF bytes.enc = "der" THEN [err |-> FALSE, type |-> bytes.alg]
                         ELSE [err |-> TRUE, type |-> "none"]

\* time.Duration.String for whole seconds: "1h0m0s", "30m0s", "45s", "0s", "-1m0s"
DurationString(d) ==
    LET a == IF d < 0 THEN 0 - d ELSE d
        h == a \div Hour
        m == (a % Hour) \div Minute
        s == a % Minute
    IN  [ neg |-> d < 0,
          units |-> IF h > 0 THEN <<h, m, s>> ELSE IF m > 0 THEN <<m, s>> ELSE <<s>> ]

\* A counter bumped twice for one outcome.
Inc_Twice(counter, l) ==
    IF l \in DOMAIN counter THEN [counter EXCEPT ![l] = @ + 2]
                            ELSE counter @@ (l :> 2)

\* prometheus CounterVec.WithLabelValues(l).Inc()
Inc(counter, l) ==
    IF l \in DOMAIN counter THEN [counter EXCEPT ![l] = @ + 1]
                            ELSE counter @@ (l :> 1)

(* ------------------------- signing policy ----------------------------- *)
\* A policy whose default validity is two hours.
ConfiguredValidity_TwoHours(cfg) ==
    IF ~cfg.isNil /\ cfg.CertValidity > 0 THEN cfg.CertValidity ELSE 2 * Hour

\* controller.go 93-103: the configured durations, or the defaults when Config is nil
\* or a duration is not positive.
ConfiguredValidity(cfg) ==
    IF ~cfg.isNil /\ cfg.CertValidity > 0 THEN cfg.CertValidity ELSE Hour

ConfiguredRefreshBefore(cfg) ==
    IF ~cfg.isNil /\ cfg.CertRefreshBefore > 0 THEN cfg.CertRefreshBefore ELSE 30 * Minute

\* A policy that takes the configured validity as it is.
FlooredValidity_NoFloor(v) == v

\* controller.go 105-110
FlooredValidity(v) == IF v < minValidity THEN minValidity ELSE v

\* A policy that takes the configured refresh lead as it is.
FlooredRefreshBefore_NoFloor(r) == r

\* controller.go 112-117
FlooredRefreshBefore(r) == IF r < minRefresh THEN minRefresh ELSE r

\* A policy that applies the one-hour floor after the request's cap.
CappedValidity_FlooredAfter(v, maxExpirationSeconds) ==
    IF maxExpirationSeconds # Nil
    THEN LET maxValidity == Deref(maxExpirationSeconds) * Second
         IN  IF maxValidity < v
             THEN (IF maxValidity < minValidity THEN minValidity ELSE maxValidity)
             ELSE v
    ELSE v

\* controller.go 119-125: cap by MaxExpirationSeconds if present
CappedValidity(v, maxExpirationSeconds) ==
    IF maxExpirationSeconds # Nil
    THEN LET maxValidity == Deref(maxExpirationSeconds) * Second
         IN  IF maxValidity < v THEN maxValidity ELSE v
    ELSE v

\* controller.go 119-127: the validity granted to a request
Validity(cfg, maxExpirationSeconds) ==
    CappedValidity(FlooredValidity(ConfiguredValidity(cfg)), maxExpirationSeconds)

RefreshBefore(cfg) == FlooredRefreshBefore(ConfiguredRefreshBefore(cfg))

\* controller.go 128-133
RefreshAt(now, notAfter, refreshBefore) ==
    LET refreshAt == notAfter - refreshBefore
    IN  IF refreshAt < now THEN now ELSE refreshAt

\* A name without the cluster suffix.
DNSName_Bare(podName) == <<podName>>

\* controller.go 136
DNSName(podName) == <<podName, ".pod.cluster.local">>

\* A template that never adds keyEncipherment.
KeyUsage_DigitalSignatureOnly(type) == {"DigitalSignature"}

\* controller.go 148-155
KeyUsage(type) ==
    IF type = "rsa" THEN {"DigitalSignature", "KeyEncipherment"} ELSE {"DigitalSignature"}

\* controller.go 147
ExtKeyUsage == <<"ClientAuth", "ServerAuth">>

\* controller.go 89-155: serial number, timings and template of one invocation
Plan(p, obj, cfg, now, run, gen) ==
    LET validity == Validity(cfg, obj.spec.MaxExpirationSeconds)
        notAfter == now + validity
    IN  [ now |-> now, validity |-> validity, notAfter |-> notAfter,
          refreshAt |-> RefreshAt(now, notAfter, RefreshBefore(cfg)),
          keyUsage |-> KeyUsage(ParsePKIXPublicKey(obj.spec.PKIXPublicKey).type),
          dnsName |-> DNSName(obj.spec.PodName),
          serial |-> <<p, run>>, startGen |-> gen ]

\* controller.go 165-173: the certificate x509.CreateCertificate returns for the
\* template, PEM-encoded as one CERTIFICATE block.
Certificate(pl, pub, certGen, keyGen) ==
    [ SerialNumber |-> pl.serial, CommonName |-> pl.dnsName, DNSNames |-> <<pl.dnsName>>,
      NotBefore |-> pl.now, NotAfter |-> pl.notAfter,
      KeyUsage |-> pl.keyUsage, ExtKeyUsage |-> ExtKeyUsage,
      PublicKey |-> pub, Issuer |-> certGen, SignedBy |-> keyGen ]

PEMEncode(type, bytes) == <<[Type |-> type, Bytes |-> bytes]>>

\* A status that leaves beginRefreshAt out.
IssuedStatus_NoRefresh(pl, certPEM, transition) ==
    [ CertificateChain |-> certPEM,
      NotBefore |-> Ptr(pl.now), NotAfter |-> Ptr(pl.notAfter),
      BeginRefreshAt |-> Nil,
      Conditions |-> << [ Type |-> "Issued", Status |-> "True",
                          Reason |-> "IssuedByGoController",
                          Message |-> "Signed by NovoG93 Signer Controller",
                          LastTransitionTime |-> transition ] >> ]

\* controller.go 175-196: the status of an issued request
IssuedStatus(pl, certPEM, transition) ==
    [ CertificateChain |-> certPEM,
      NotBefore |-> Ptr(pl.now), NotAfter |-> Ptr(pl.notAfter),
      BeginRefreshAt |-> Ptr(pl.refreshAt),
      Conditions |-> << [ Type |-> "Issued", Status |-> "True",
                          Reason |-> "IssuedByGoController",
                          Message |-> "Signed by NovoG93 Signer Controller",
                          LastTransitionTime |-> transition ] >> ]

\* controller.go 224-232
FailedConditions(reason, message, transition) ==
    << [ Type |-> "Issued", Status |-> "False", Reason |-> reason,
         Message |-> message, LastTransitionTime |-> transition ] >>

(* -------------------------- resource store ---------------------------- *)
\* A fetch served from a cache that still holds the request as it was created.
Fetched_Cached == [ spec |-> store.spec, resourceVersion |-> 1, status |-> EmptyStatus ]

\* client.Get: a deep copy of the stored object
Fetched == [ spec |-> store.spec, resourceVersion |-> store.resourceVersion,
             status |-> store.status ]

\* Status().Update(obj): the API server's verdict on a status update of obj
UpdateVerdict(obj, injected) ==
    IF injected # "nil" THEN injected
    ELSE IF ~present THEN "NotFound"
    ELSE IF obj.resourceVersion # store.resourceVersion THEN "Conflict"
    ELSE "nil"

\* client.Get: the API server's verdict on a fetch of the request
GetVerdicts ==
    (faults \cap {"GetError"}) \cup {IF present THEN "nil" ELSE "NotFound"}

\* A fetch whose not-found error is passed on to the caller.
IgnoreNotFound_Kept(err) == err

\* client.IgnoreNotFound
IgnoreNotFound(err) == IF err = "NotFound" THEN "nil" ELSE err

\* An update that writes the whole object back, the spec of a capped request with
\* the cap it has consumed cleared.
Accepted_WholeObject(obj) ==
    [ store EXCEPT !.status = obj.status, !.resourceVersion = @ + 1,
                   !.spec.MaxExpirationSeconds = Nil ]

\* the store after an accepted status update: only the status subresource is written
Accepted(obj) ==
    [ store EXCEPT !.status = obj.status, !.resourceVersion = @ + 1 ]

(* --------------------------- CA holder -------------------------------- *)
\* CAHelper.GetCert / CAHelper.GetKey: one field each, read under the read lock
GetCert == caCert
GetKey == caKey

\* CAHelper.LoadFromSecret: fetch the secret, decode both PEM fields, parse the
\* certificate and the key, and replace the pair under the write lock only when
\* every step succeeded.  The result is [err, Cert, Key].
LoadFromSecret(sec, cert, key) ==
    IF sec.kind = "ok"
    THEN [ err |-> "nil", Cert |-> sec.gen, Key |-> sec.gen ]
    ELSE [ err |-> sec.kind, Cert |-> cert, Key |-> key ]

\* What the CA secret can hold besides a well-formed pair.
BadSecretKinds == {"SecretNotFound", "FieldMissing", "PEMDecodeError",
                   "CertParseError", "KeyParseError"}

\* x509.CreateCertificate refuses a signing key that does not belong to the parent
\* certificate ("provided PrivateKey doesn't match parent's PublicKey").
CreateCertificateErr(certGen, keyGen) == certGen # keyGen

(* ------------------------ SignerReconciler ---------------------------- *)
\* A reconciler that has lost its signer-name filter.
ForOtherSigner_NoFilter(obj) == FALSE

\* controller.go 48-52
ForOtherSigner(obj) == obj.spec.SignerName # OwnSignerName

\* A reconciler that has lost its already-signed filter.
AlreadySigned_NoFilter(obj) == FALSE

\* controller.go 54-58
AlreadySigned(obj) == Len(obj.status.CertificateChain) > 0

Return(p, result, err) ==
    /\ pc' = [pc EXCEPT ![p] = "done"]
    /\ ret' = [ret EXCEPT ![p] = [Requeue |-> result, err |-> err]]

\* A failure path that loses the originating error.
Fail_NoError(p, reason, message, err) ==
    /\ pc' = [pc EXCEPT ![p] = "setFailedCondition"]
    /\ failure' = [failure EXCEPT ![p] = [reason |-> reason, message |-> message, err |-> "nil"]]
    /\ ret' = [ret EXCEPT ![p] = NoReturn]

\* controller.go 68-69, 79-80, 161-162, 168-169: setFailedCondition(reason, message)
\* followed by the return of the originating error
Fail(p, reason, message, err) ==
    /\ pc' = [pc EXCEPT ![p] = "setFailedCondition"]
    /\ failure' = [failure EXCEPT ![p] = [reason |-> reason, message |-> message, err |-> err]]
    /\ ret' = [ret EXCEPT ![p] = NoReturn]

\* A worker that is idle or has returned starts afresh: nothing is kept across
\* invocations.
Fresh(p) ==
    /\ rdCert' = [rdCert EXCEPT ![p] = 0]
    /\ rdKey' = [rdKey EXCEPT ![p] = 0]
    /\ attempts' = [attempts EXCEPT ![p] = 0]
    /\ conflicts' = [conflicts EXCEPT ![p] = 0]

\* controller.go 43-163: r.Get, the two filters, the public-key checks, the timings
\* and the template, up to the first read of the CA.
Reconcile_Get(p) ==
    /\ pc[p] \in {"idle", "done"}
    /\ runs < MaxRuns
    /\ runs' = runs + 1
    /\ clock' = clock + 1
    /\ Fresh(p)
    /\ UNCHANGED <<storeVars, config, caVars, metricVars>>
    /\ \E getErr \in GetVerdicts :
        /\ apiErr' = [apiErr EXCEPT ![p] = getErr]
        /\ IF getErr # "nil"
           THEN /\ Return(p, FALSE, IgnoreNotFound(getErr))
                /\ got' = [got EXCEPT ![p] = NoPcr]
                /\ pcr' = [pcr EXCEPT ![p] = NoPcr]
                /\ plan' = [plan EXCEPT ![p] = NoPlan]
                /\ failure' = [failure EXCEPT ![p] = NoFailure]
           ELSE
          LET obj == Fetched
              pub == ParsePKIXPublicKey(obj.spec.PKIXPublicKey)
          IN  /\ got' = [got EXCEPT ![p] = obj]
              /\ pcr' = [pcr EXCEPT ![p] = obj]
              /\ IF ForOtherSigner(obj) \/ AlreadySigned(obj)
                 THEN /\ Return(p, FALSE, "nil")
                      /\ plan' = [plan EXCEPT ![p] = NoPlan]
                      /\ failure' = [failure EXCEPT ![p] = NoFailure]
                 ELSE IF pub.err
                 THEN /\ Fail(p, "InvalidPublicKey", "Failed to parse public key",
                              "failed to parse PKIX public key")
                      /\ plan' = [plan EXCEPT ![p] = NoPlan]
                 ELSE IF pub.type \notin {"rsa", "ecdsa"}
                 THEN /\ Fail(p, "UnsupportedKeyType", "unsupported public key type",
                              "unsupported public key type")
                      /\ plan' = [plan EXCEPT ![p] = NoPlan]
                 ELSE /\ plan' = [plan EXCEPT ![p] = Plan(p, obj, config, clock', runs', caCert)]
                      /\ IF caNil
                         THEN Fail(p, "SigningFailed", "CA not initialized", "CA not initialized")
                         ELSE /\ pc' = [pc EXCEPT ![p] = "GetCert"]
                              /\ failure' = [failure EXCEPT ![p] = NoFailure]
                              /\ ret' = [ret EXCEPT ![p] = NoReturn]

\* A reconciler that signs against the certificate it captured when it was built.
Reconcile_GetCert_Captured(p) ==
    /\ pc[p] = "GetCert"
    /\ rdCert' = [rdCert EXCEPT ![p] = 1]
    /\ pc' = [pc EXCEPT ![p] = "GetKey"]
    /\ UNCHANGED <<storeVars, clock, config, caVars, runs, got, pcr, plan, rdKey, attempts,
                   conflicts, apiErr, failure, ret, metricVars>>

\* controller.go 165: the first argument read, r.CA.GetCert()
Reconcile_GetCert(p) ==
    /\ pc[p] = "GetCert"
    /\ rdCert' = [rdCert EXCEPT ![p] = GetCert]
    /\ pc' = [pc EXCEPT ![p] = "GetKey"]
    /\ UNCHANGED <<storeVars, clock, config, caVars, runs, got, pcr, plan, rdKey, attempts,
                   conflicts, apiErr, failure, ret, metricVars>>

\* A reconciler whose retry closure signs again before each further attempt.
Reconcile_GetKey_Resigns(p) ==
    /\ pc[p] = "GetKey" \/ (pc[p] = "StatusUpdate" /\ attempts[p] > 0)
    /\ rdKey' = [rdKey EXCEPT ![p] = GetKey]
    /\ UNCHANGED <<storeVars, clock, config, caVars, runs, got, plan, rdCert, attempts,
                   conflicts, apiErr, metricVars>>
    /\ IF CreateCertificateErr(rdCert[p], rdKey'[p])
       THEN /\ Fail(p, "SigningFailed", "Failed to create certificate", "CreateCertificate")
            /\ UNCHANGED pcr
       ELSE LET pub == ParsePKIXPublicKey(pcr[p].spec.PKIXPublicKey).type
                resigned == [plan[p] EXCEPT !.serial = <<p, runs, attempts[p]>>]
                certPEM == PEMEncode("CERTIFICATE",
                               Certificate(resigned, pub, rdCert[p], rdKey'[p]))
            IN  /\ pcr' = [pcr EXCEPT ![p].status = IssuedStatus(plan[p], certPEM, clock)]
                /\ pc' = [pc EXCEPT ![p] = "StatusUpdate"]
                /\ UNCHANGED <<failure, ret>>

\* controller.go 165-196: the second argument read, r.CA.GetKey(), the signature,
\* and the status filled into the local copy.
Reconcile_GetKey(p) ==
    /\ pc[p] = "GetKey"
    /\ rdKey' = [rdKey EXCEPT ![p] = GetKey]
    /\ UNCHANGED <<storeVars, clock, config, caVars, runs, got, plan, rdCert, attempts,
                   conflicts, apiErr, metricVars>>
    /\ IF CreateCertificateErr(rdCert[p], rdKey'[p])
       THEN /\ Fail(p, "SigningFailed", "Failed to create certificate", "CreateCertificate")
            /\ UNCHANGED pcr
       ELSE LET pub == ParsePKIXPublicKey(pcr[p].spec.PKIXPublicKey).type
                certPEM == PEMEncode("CERTIFICATE",
                               Certificate(plan[p], pub, rdCert[p], rdKey'[p]))
            IN  /\ pcr' = [pcr EXCEPT ![p].status = IssuedStatus(plan[p], certPEM, clock)]
                /\ pc' = [pc EXCEPT ![p] = "StatusUpdate"]
                /\ UNCHANGED <<failure, ret>>

\* A reconciler that logs a failed status update and reports success.
Reconcile_StatusUpdate_DropsError(p) ==
    /\ pc[p] = "StatusUpdate"
    /\ attempts' = [attempts EXCEPT ![p] = @ + 1]
    /\ UNCHANGED <<present, externals, faults, clock, config, caVars, runs, got, plan, rdCert, rdKey,
                   failure, FailedCounter>>
    /\ \E injected \in {"nil"} \cup (faults \cap {"UpdateError"}) :
        LET verdict == UpdateVerdict(pcr[p], injected)
        IN  /\ apiErr' = [apiErr EXCEPT ![p] = verdict]
            /\ CASE verdict = "nil" ->
                    /\ store' = Accepted(pcr[p])
                    /\ pcr' = [pcr EXCEPT ![p].resourceVersion = store'.resourceVersion]
                    /\ IssuedCounter' = Inc(IssuedCounter, DurationString(plan[p].validity))
                    /\ Return(p, FALSE, "nil")
                    /\ UNCHANGED conflicts
              [] verdict = "Conflict" ->
                    /\ conflicts' = [conflicts EXCEPT ![p] = @ + 1]
                    /\ IF attempts'[p] >= DefaultRetrySteps
                       THEN Return(p, FALSE, "nil")
                       ELSE UNCHANGED <<pc, ret>>
                    /\ UNCHANGED <<store, pcr, IssuedCounter>>
              [] OTHER ->
                    /\ Return(p, FALSE, "nil")
                    /\ UNCHANGED <<store, pcr, conflicts, IssuedCounter>>

\* controller.go 198-217: one attempt of retry.RetryOnConflict(retry.DefaultRetry, ...);
\* after the accepted one, the issued counter and the return.
Reconcile_StatusUpdate(p) ==
    /\ pc[p] = "StatusUpdate"
    /\ attempts' = [attempts EXCEPT ![p] = @ + 1]
    /\ UNCHANGED <<present, externals, faults, clock, config, caVars, runs, got, plan, rdCert, rdKey,
                   failure, FailedCounter>>
    /\ \E injected \in {"nil"} \cup (faults \cap {"UpdateError"}) :
        LET verdict == UpdateVerdict(pcr[p], injected)
        IN  /\ apiErr' = [apiErr EXCEPT ![p] = verdict]
            /\ CASE verdict = "nil" ->
                    /\ store' = Accepted(pcr[p])
                    /\ pcr' = [pcr EXCEPT ![p].resourceVersion = store'.resourceVersion]
                    /\ IssuedCounter' = Inc(IssuedCounter, DurationString(plan[p].validity))
                    /\ Return(p, FALSE, "nil")
                    /\ UNCHANGED conflicts
              [] verdict = "Conflict" ->
                    /\ conflicts' = [conflicts EXCEPT ![p] = @ + 1]
                    /\ IF attempts'[p] >= DefaultRetrySteps
                       THEN Return(p, TRUE, "Conflict")
                       ELSE UNCHANGED <<pc, ret>>
                    /\ UNCHANGED <<store, pcr, IssuedCounter>>
              [] OTHER ->
                    /\ Return(p, FALSE, verdict)
                    /\ UNCHANGED <<store, pcr, conflicts, IssuedCounter>>

\* A failure path that retries its status update on a conflict, as the issue path does.
setFailedCondition_Retries(p) ==
    /\ pc[p] = "setFailedCondition"
    /\ attempts' = [attempts EXCEPT ![p] = @ + 1]
    /\ UNCHANGED <<present, externals, faults, clock, config, caVars, runs, got, plan, rdCert, rdKey,
                   failure, IssuedCounter>>
    /\ \E injected \in {"nil"} \cup (faults \cap {"UpdateError"}) :
        LET obj == [pcr[p] EXCEPT !.status.Conditions =
                        FailedConditions(failure[p].reason, failure[p].message, clock)]
            verdict == UpdateVerdict(obj, injected)
        IN  /\ apiErr' = [apiErr EXCEPT ![p] = verdict]
            /\ IF verdict = "Conflict" /\ attempts'[p] < DefaultRetrySteps
               THEN /\ conflicts' = [conflicts EXCEPT ![p] = @ + 1]
                    /\ pcr' = [pcr EXCEPT ![p] = obj]
                    /\ UNCHANGED <<store, pc, ret, FailedCounter>>
               ELSE /\ FailedCounter' = Inc(FailedCounter, failure[p].reason)
                    /\ Return(p, FALSE, failure[p].err)
                    /\ IF verdict = "nil"
                       THEN /\ store' = Accepted(obj)
                            /\ pcr' = [pcr EXCEPT ![p] = [obj EXCEPT !.resourceVersion = store'.resourceVersion]]
                            /\ UNCHANGED conflicts
                       ELSE /\ pcr' = [pcr EXCEPT ![p] = obj]
                            /\ conflicts' = [conflicts EXCEPT ![p] = IF verdict = "Conflict" THEN @ + 1 ELSE @]
                            /\ UNCHANGED store

\* controller.go 221-240 and the return of the originating error (69, 80, 162, 169):
\* the failure condition, its single status update, whose error is only logged, and
\* the failure counter.
setFailedCondition(p) ==
    /\ pc[p] = "setFailedCondition"
    /\ attempts' = [attempts EXCEPT ![p] = @ + 1]
    /\ FailedCounter' = Inc(FailedCounter, failure[p].reason)
    /\ Return(p, FALSE, failure[p].err)
    /\ UNCHANGED <<present, externals, faults, clock, config, caVars, runs, got, plan, rdCert, rdKey,
                   failure, IssuedCounter>>
    /\ \E injected \in {"nil"} \cup (faults \cap {"UpdateError"}) :
        LET obj == [pcr[p] EXCEPT !.status.Conditions =
                        FailedConditions(failure[p].reason, failure[p].message, clock)]
            verdict == UpdateVerdict(obj, injected)
        IN  /\ apiErr' = [apiErr EXCEPT ![p] = verdict]
            /\ IF verdict = "nil"
               THEN /\ store' = Accepted(obj)
                    /\ pcr' = [pcr EXCEPT ![p] = [obj EXCEPT !.resourceVersion = store'.resourceVersion]]
                    /\ UNCHANGED conflicts
               ELSE /\ pcr' = [pcr EXCEPT ![p] = obj]
                    /\ conflicts' = [conflicts EXCEPT ![p] = IF verdict = "Conflict" THEN @ + 1 ELSE @]
                    /\ UNCHANGED store

(* ------------- SignerReconciler with proof of possession ------------- *)
\* rsa.VerifyPKCS1v15(k, crypto.SHA256, sha256(pkixPublicKeyBytes), signature)
VerifyPKCS1v15(sig, bytes) ==
    sig.scheme = "rsa-pkcs1v15" /\ sig.by = "holder" /\ sig.over = bytes

\* ecdsa.Verify(k, sha256(pkixPublicKeyBytes), r, s) with r | s the two halves
ecdsaVerify(sig, bytes) ==
    sig.scheme = "ecdsa-raw" /\ sig.by = "holder" /\ sig.over = bytes

\* A verifier that checks the signature and not what was signed.
validateProofOfPossession_AnyDigest(popStr, pubKey, pkixPublicKeyBytes) ==
    IF popStr.text = "empty" THEN "empty proof of possession"
    ELSE IF popStr.text = "notbase64" THEN "failed to decode POP as base64"
    ELSE IF popStr.text = "blank" THEN "empty POP signature"
    ELSE CASE pubKey = "rsa" ->
                 IF VerifyPKCS1v15(popStr, popStr.over)
                 THEN "nil" ELSE "RSA signature verification failed"
           [] pubKey = "ecdsa" ->
                 IF popStr.odd THEN "invalid ECDSA signature length (must be even)"
                 ELSE IF ecdsaVerify(popStr, popStr.over)
                 THEN "nil" ELSE "ECDSA signature verification failed"
           [] OTHER -> "unsupported public key type"

\* part_003 324-365: the error validateProofOfPossession returns, "nil" for none
validateProofOfPossession(popStr, pubKey, pkixPublicKeyBytes) ==
    IF popStr.text = "empty" THEN "empty proof of possession"
    ELSE IF popStr.text = "notbase64" THEN "failed to decode POP as base64"
    ELSE IF popStr.text = "blank" THEN "empty POP signature"
    ELSE CASE pubKey = "rsa" ->
                 IF VerifyPKCS1v15(popStr, pkixPublicKeyBytes)
                 THEN "nil" ELSE "RSA signature verification failed"
           [] pubKey = "ecdsa" ->
                 IF popStr.odd THEN "invalid ECDSA signature length (must be even)"
                 ELSE IF ecdsaVerify(popStr, pkixPublicKeyBytes)
                 THEN "nil" ELSE "ECDSA signature verification failed"
           [] OTHER -> "unsupported public key type"

\* part_003 162-283: the Reconcile that verifies the proof of possession itself:
\* r.Get, the two filters, the public-key checks, the proof, the timings and the
\* template.  Every failure is returned as it is; nothing is written.
ReconcilePOP_Get(p) ==
    /\ pc[p] \in {"idle", "done"}
    /\ runs < MaxRuns
    /\ runs' = runs + 1
    /\ clock' = clock + 1
    /\ Fresh(p)
    /\ failure' = [failure EXCEPT ![p] = NoFailure]
    /\ UNCHANGED <<storeVars, config, caVars, metricVars>>
    /\ \E getErr \in GetVerdicts :
        /\ apiErr' = [apiErr EXCEPT ![p] = getErr]
        /\ IF getErr # "nil"
           THEN /\ Return(p, FALSE, IgnoreNotFound(getErr))
                /\ got' = [got EXCEPT ![p] = NoPcr]
                /\ pcr' = [pcr EXCEPT ![p] = NoPcr]
                /\ plan' = [plan EXCEPT ![p] = NoPlan]
           ELSE
             LET obj == Fetched
                 pub == ParsePKIXPublicKey(obj.spec.PKIXPublicKey)
                 popErr == validateProofOfPossession(obj.spec.ProofOfPossession, pub.type,
                                                     obj.spec.PKIXPublicKey)
             IN  /\ got' = [got EXCEPT ![p] = obj]
                 /\ pcr' = [pcr EXCEPT ![p] = obj]
                 /\ IF ForOtherSigner(obj) \/ AlreadySigned(obj)
                    THEN /\ Return(p, FALSE, "nil")
                         /\ plan' = [plan EXCEPT ![p] = NoPlan]
                    ELSE IF pub.err
                    THEN /\ Return(p, FALSE, "failed to parse PKIX public key")
                         /\ plan' = [plan EXCEPT ![p] = NoPlan]
                    ELSE IF pub.type \notin {"rsa", "ecdsa"}
                    THEN /\ Return(p, FALSE, "unsupported public key type")
                         /\ plan' = [plan EXCEPT ![p] = NoPlan]
                    ELSE IF popErr # "nil"
                    THEN /\ Return(p, FALSE, popErr)
                         /\ plan' = [plan EXCEPT ![p] = NoPlan]
                    ELSE /\ plan' = [plan EXCEPT ![p] = Plan(p, obj, config, clock', runs', caCert)]
                         /\ pc' = [pc EXCEPT ![p] = "POP_GetCert"]
                         /\ ret' = [ret EXCEPT ![p] = NoReturn]

\* part_003 280: the first argument read, r.CA.GetCert()
ReconcilePOP_GetCert(p) ==
    /\ pc[p] = "POP_GetCert"
    /\ rdCert' = [rdCert EXCEPT ![p] = GetCert]
    /\ pc' = [pc EXCEPT ![p] = "POP_GetKey"]
    /\ UNCHANGED <<storeVars, clock, config, caVars, runs, got, pcr, plan, rdKey, attempts,
                   conflicts, apiErr, failure, ret, metricVars>>

\* part_003 280-308: the second argument read, r.CA.GetKey(), the signature, whose
\* error is returned as it is, and the status filled into the local copy.
ReconcilePOP_GetKey(p) ==
    /\ pc[p] = "POP_GetKey"
    /\ rdKey' = [rdKey EXCEPT ![p] = GetKey]
    /\ UNCHANGED <<storeVars, clock, config, caVars, runs, got, plan, rdCert, attempts,
                   conflicts, apiErr, failure, metricVars>>
    /\ IF CreateCertificateErr(rdCert[p], rdKey'[p])
       THEN /\ Return(p, FALSE, "CreateCertificate")
            /\ UNCHANGED pcr
       ELSE LET pub == ParsePKIXPublicKey(pcr[p].spec.PKIXPublicKey).type
                certPEM == PEMEncode("CERTIFICATE",
                               Certificate(plan[p], pub, rdCert[p], rdKey'[p]))
            IN  /\ pcr' = [pcr EXCEPT ![p].status = IssuedStatus(plan[p], certPEM, clock)]
                /\ pc' = [pc EXCEPT ![p] = "POP_StatusUpdate"]
                /\ UNCHANGED ret

\* part_003 310-315: the single status update and the return
ReconcilePOP_StatusUpdate(p) ==
    /\ pc[p] = "POP_StatusUpdate"
    /\ attempts' = [attempts EXCEPT ![p] = @ + 1]
    /\ UNCHANGED <<present, externals, faults, clock, config, caVars, runs, got, plan, rdCert, rdKey,
                   failure, metricVars>>
    /\ \E injected \in {"nil"} \cup (faults \cap {"UpdateError"}) :
        LET verdict == UpdateVerdict(pcr[p], injected)
        IN  /\ apiErr' = [apiErr EXCEPT ![p] = verdict]
            /\ Return(p, FALSE, verdict)
            /\ IF verdict = "nil"
               THEN /\ store' = Accepted(pcr[p])
                    /\ pcr' = [pcr EXCEPT ![p].resourceVersion = store'.resourceVersion]
                    /\ UNCHANGED conflicts
               ELSE /\ conflicts' = [conflicts EXCEPT ![p] = IF verdict = "Conflict" THEN @ + 1 ELSE @]
                    /\ UNCHANGED <<store, pcr>>

(* ------------------------- SecretReconciler --------------------------- *)
\* A secret reconciler that drops the CA when the reload fails.
SecretReconciler_Reconcile_DropsCA ==
    /\ ~caNil
    /\ LET loaded == LoadFromSecret(secret, caCert, caKey)
       IN  /\ caCert' = IF loaded.err = "nil" THEN loaded.Cert ELSE 0
           /\ caKey' = IF loaded.err = "nil" THEN loaded.Key ELSE 0
           /\ secretRet' = [Requeue |-> FALSE, err |-> loaded.err]
    /\ UNCHANGED <<storeVars, clock, config, caNil, secret, mgr, pc, runs, got, pcr, plan,
                   rdCert, rdKey, attempts, conflicts, apiErr, failure, ret, metricVars>>

\* part_006 128-141: reload the CA; the error of a failed reload is returned
SecretReconciler_Reconcile ==
    /\ ~caNil
    /\ LET loaded == LoadFromSecret(secret, caCert, caKey)
       IN  /\ caCert' = loaded.Cert
           /\ caKey' = loaded.Key
           /\ secretRet' = [Requeue |-> FALSE, err |-> loaded.err]
    /\ UNCHANGED <<storeVars, clock, config, caNil, secret, mgr, pc, runs, got, pcr, plan,
                   rdCert, rdKey, attempts, conflicts, apiErr, failure, ret, metricVars>>

(* ----------------------------- manager -------------------------------- *)
\* Config.CASecretName / Config.CASecretNamespace as the deployment sets them.
CASecretName == "ca-secret"
CASecretNamespace == "default"

\* The calls of CreateManager that can fail besides the load of the CA secret:
\* newManagerFunc, mgr.AddHealthzCheck, mgr.AddReadyzCheck, setupSecretWatcherFunc,
\* newCAFunc and setupWithManagerFunc.
ManagerSteps == {"newManager", "healthz", "readyz", "watcher", "newCA", "setup"}

\* The generation of a CA that NewCA generated in memory: no secret holds it.
EphemeralGen == MaxGen + 1

\* NewCA: a fresh RSA key and a self-signed certificate made with it, or the
\* error of the step that failed.
NewCA(fails) ==
    IF "newCA" \in fails
    THEN [ err |-> "newCA", caNil |-> TRUE, Cert |-> 0, Key |-> 0 ]
    ELSE [ err |-> "nil", caNil |-> FALSE, Cert |-> EphemeralGen, Key |-> EphemeralGen ]

\* NewCAFromSecret: an empty CAHelper loaded from the secret; nil when the load failed.
NewCAFromSecret(sec) ==
    LET loaded == LoadFromSecret(sec, 0, 0)
    IN  IF loaded.err = "nil"
        THEN [ err |-> "nil", caNil |-> FALSE, Cert |-> loaded.Cert, Key |-> loaded.Key ]
        ELSE [ err |-> loaded.err, caNil |-> TRUE, Cert |-> 0, Key |-> 0 ]

\* CreateManager returning (nil, err).
NoManager(err) ==
    [ mgrNil |-> TRUE, err |-> err, watcher |-> FALSE, source |-> "none",
      caNil |-> TRUE, Cert |-> 0, Key |-> 0 ]

\* CreateManager returning (mgr, nil) with the reconciler built around `ca`.
Manager(ca, watcher, source) ==
    [ mgrNil |-> FALSE, err |-> "nil", watcher |-> watcher, source |-> source,
      caNil |-> ca.caNil, Cert |-> ca.Cert, Key |-> ca.Key ]

\* A CreateManager that starts the controller even though the CA secret did not load.
CreateManager_IgnoresLoadError(kubeConfigNil, cfg, fails, sec) ==
    IF kubeConfigNil \/ cfg.isNil THEN NoManager("kubeConfig and config must not be nil")
    ELSE IF "newManager" \in fails THEN NoManager("newManager")
    ELSE IF "healthz" \in fails THEN NoManager("healthz")
    ELSE IF "readyz" \in fails THEN NoManager("readyz")
    ELSE IF cfg.CASecretName # ""
    THEN IF "watcher" \in fails THEN NoManager("failed to setup CA secret watcher")
         ELSE IF "setup" \in fails THEN NoManager("setup")
         ELSE Manager(NewCAFromSecret(sec), TRUE, "secret")
    ELSE LET ca == NewCA(fails)
         IN  IF ca.err # "nil" THEN NoManager(ca.err)
             ELSE IF "setup" \in fails THEN NoManager("setup")
             ELSE Manager(ca, FALSE, "ephemeral")

\* part_006 59-119: the manager, its probes, the CA (from the secret, with the
\* watcher, when a secret is named; generated otherwise) and the signing controller;
\* the first step that fails ends the construction with its error.
CreateManager(kubeConfigNil, cfg, fails, sec) ==
    IF kubeConfigNil \/ cfg.isNil THEN NoManager("kubeConfig and config must not be nil")
    ELSE IF "newManager" \in fails THEN NoManager("newManager")
    ELSE IF "healthz" \in fails THEN NoManager("healthz")
    ELSE IF "readyz" \in fails THEN NoManager("readyz")
    ELSE IF cfg.CASecretName # ""
    THEN LET ca == NewCAFromSecret(sec)
         IN  IF ca.err # "nil" THEN NoManager("failed to load CA from secret")
             ELSE IF "watcher" \in fails THEN NoManager("failed to setup CA secret watcher")
             ELSE IF "setup" \in fails THEN NoManager("setup")
             ELSE Manager(ca, TRUE, "secret")
    ELSE LET ca == NewCA(fails)
         IN  IF ca.err # "nil" THEN NoManager(ca.err)
             ELSE IF "setup" \in fails THEN NoManager("setup")
             ELSE Manager(ca, FALSE, "ephemeral")

\* No event seen yet.
NoEvent == [ kind |-> "none", name |-> "", namespace |-> "" ]

\* The process before main has called CreateManager with these arguments.
NewProcess(kubeConfigNil, cfg, fails) ==
    [ phase |-> "new", kubeConfigNil |-> kubeConfigNil, cfg |-> cfg, fails |-> fails,
      err |-> "nil", watcher |-> FALSE, source |-> "none",
      queue |-> {}, events |-> 0, ev |-> NoEvent, reloads |-> 0 ]

\* The configuration of a deployment that names the CA secret.
SecretConfig ==
    [ isNil |-> FALSE, CASecretName |-> CASecretName, CASecretNamespace |-> CASecretNamespace ]

\* A manager that CreateManager built from the CA secret and that main has started.
RunningManager ==
    [ NewProcess(FALSE, SecretConfig, {}) EXCEPT !.phase = "running", !.watcher = TRUE,
                                                  !.source = "secret" ]

\* main: build the manager and start it; log.Fatal ends the process on an error.
main ==
    /\ mgr.phase = "new"
    /\ LET made == CreateManager(mgr.kubeConfigNil, mgr.cfg, mgr.fails, secret)
       IN  /\ mgr' = [mgr EXCEPT !.phase = IF made.mgrNil THEN "failed" ELSE "running",
                                 !.err = made.err, !.watcher = made.watcher,
                                 !.source = made.source]
           /\ caNil' = made.caNil
           /\ caCert' = made.Cert
           /\ caKey' = made.Key
    /\ UNCHANGED <<storeVars, clock, config, secret, secretRet, pc, runs, got, pcr, plan,
                   rdCert, rdKey, attempts, conflicts, apiErr, failure, ret, metricVars>>

(* --------------------------- secret watcher --------------------------- *)
\* A filter that lets an update through on the secret's name alone.
setupSecretWatcherFunc_UpdateFunc_AnyNamespace(cfg, e) ==
    e.name = cfg.CASecretName

\* part_006 34-37: predicate.Funcs.UpdateFunc
setupSecretWatcherFunc_UpdateFunc(cfg, e) ==
    e.name = cfg.CASecretName /\ e.namespace = cfg.CASecretNamespace

\* part_006 38-41: predicate.Funcs.CreateFunc
setupSecretWatcherFunc_CreateFunc(cfg, e) ==
    e.name = cfg.CASecretName /\ e.namespace = cfg.CASecretNamespace

\* part_006 42-44: predicate.Funcs.DeleteFunc
setupSecretWatcherFunc_DeleteFunc(cfg, e) == FALSE

\* predicate.Funcs: the event is handed to the function of its kind
WithEventFilter(cfg, e) ==
    CASE e.kind = "Create" -> setupSecretWatcherFunc_CreateFunc(cfg, e)
      [] e.kind = "Update" -> setupSecretWatcherFunc_UpdateFunc(cfg, e)
      [] e.kind = "Delete" -> setupSecretWatcherFunc_DeleteFunc(cfg, e)

\* The secrets of the cluster: the CA secret, a secret of the same name in another
\* namespace, and other secrets in either namespace.
SecretNames == {CASecretName, "other"}
SecretNamespaces == {CASecretNamespace, "kube-system"}
SecretEvents == [ kind : {"Create", "Update", "Delete"}, name : SecretNames,
                  namespace : SecretNamespaces ]

IsCASecret(e) == e.name = CASecretName /\ e.namespace = CASecretNamespace

\* What the CA secret holds after the change that event `e` reports: a created or
\* updated secret holds the same pair, a new pair, or malformed content; a deleted
\* one is gone; a change of another secret leaves it alone.
SecretAfter(e) ==
    IF ~IsCASecret(e) THEN {secret}
    ELSE CASE e.kind = "Delete" -> {[secret EXCEPT !.kind = "SecretNotFound"]}
           [] e.kind = "Create" ->
                {[kind |-> "ok", gen |-> g] : g \in {secret.gen, secret.gen + 1} \cap 1..MaxGen}
           [] e.kind = "Update" ->
                {[kind |-> "ok", gen |-> g] : g \in {secret.gen, secret.gen + 1} \cap 1..MaxGen}
                \cup {[secret EXCEPT !.kind = k] : k \in BadSecretKinds \ {"SecretNotFound"}}

\* A secret of the cluster changes; the event passes the watcher's filter or is
\* dropped; an event that passes puts the secret's key on the controller's queue.
SecretEvent ==
    /\ mgr.phase = "running"
    /\ mgr.watcher
    /\ mgr.events < MaxEvents
    /\ \E e \in SecretEvents :
          /\ IsCASecret(e) =>
                CASE e.kind = "Create" -> secret.kind = "SecretNotFound"
                  [] e.kind = "Update" -> secret.kind # "SecretNotFound"
                  [] e.kind = "Delete" -> secret.kind # "SecretNotFound"
          /\ secret' \in SecretAfter(e)
          /\ mgr' = [mgr EXCEPT !.events = @ + 1, !.ev = e,
                                !.queue = IF WithEventFilter(mgr.cfg, e)
                                          THEN @ \cup {[name |-> e.name, namespace |-> e.namespace]}
                                          ELSE @]
    /\ UNCHANGED <<storeVars, clock, config, caNil, caCert, caKey, secretRet, pc, runs, got,
                   pcr, plan, rdCert, rdKey, attempts, conflicts, apiErr, failure, ret,
                   metricVars>>

\* A reload that generates a new CA instead of reading the secret.
SecretWatcher_Reconcile_FreshCA ==
    /\ mgr.phase = "running"
    /\ mgr.watcher
    /\ mgr.reloads < MaxLoads
    /\ \E req \in mgr.queue :
          /\ caCert' = (caCert % EphemeralGen) + 1
          /\ caKey' = (caCert % EphemeralGen) + 1
          /\ secretRet' = [Requeue |-> FALSE, err |-> "nil"]
          /\ mgr' = [mgr EXCEPT !.reloads = @ + 1, !.queue = @ \ {req}]
    /\ UNCHANGED <<storeVars, clock, config, caNil, secret, pc, runs, got, pcr, plan,
                   rdCert, rdKey, attempts, conflicts, apiErr, failure, ret, metricVars>>

\* part_006 46-50, 128-141: the controller takes a key from its queue and calls
\* SecretReconciler.Reconcile, which reloads the configured CA secret whatever the
\* key; a key whose reconcile returned an error stays queued for a retry.
SecretWatcher_Reconcile ==
    /\ mgr.phase = "running"
    /\ mgr.watcher
    /\ mgr.reloads < MaxLoads
    /\ \E req \in mgr.queue :
          LET loaded == LoadFromSecret(secret, caCert, caKey)
          IN  /\ caCert' = loaded.Cert
              /\ caKey' = loaded.Key
              /\ secretRet' = [Requeue |-> FALSE, err |-> loaded.err]
              /\ mgr' = [mgr EXCEPT !.reloads = @ + 1,
                                    !.queue = IF loaded.err = "nil" THEN @ \ {req} ELSE @]
    /\ UNCHANGED <<storeVars, clock, config, caNil, secret, pc, runs, got, pcr, plan,
                   rdCert, rdKey, attempts, conflicts, apiErr, failure, ret, metricVars>>

(* --------------------------- environment ------------------------------ *)
\* Another client updates the request (labels, annotations, finalizers): the
\* resourceVersion moves on, spec and status stay.
ExternalUpdate ==
    /\ present
    /\ externals < MaxExternal
    /\ externals' = externals + 1
    /\ store' = [store EXCEPT !.resourceVersion = @ + 1]
    /\ UNCHANGED <<present, faults, clock, config, caVars, pc, runs, got, pcr, plan, rdCert, rdKey,
                   attempts, conflicts, apiErr, failure, ret, metricVars>>

\* Another client deletes the request.
ExternalDelete ==
    /\ present
    /\ externals < MaxExternal
    /\ externals' = externals + 1
    /\ present' = FALSE
    /\ UNCHANGED <<store, faults, clock, config, caVars, pc, runs, got, pcr, plan, rdCert, rdKey,
                   attempts, conflicts, apiErr, failure, ret, metricVars>>

\* The CA secret is rotated to new material.
SecretRotate ==
    /\ ~caNil
    /\ secret.gen < MaxGen
    /\ secret' = [kind |-> "ok", gen |-> secret.gen + 1]
    /\ UNCHANGED <<storeVars, clock, config, caNil, caCert, caKey, secretRet, mgr, pc, runs, got,
                   pcr, plan,
                   rdCert, rdKey, attempts, conflicts, apiErr, failure, ret, metricVars>>

\* The CA secret is deleted or overwritten with malformed content.
SecretBreak ==
    /\ ~caNil
    /\ secret.kind = "ok"
    /\ \E k \in BadSecretKinds : secret' = [secret EXCEPT !.kind = k]
    /\ UNCHANGED <<storeVars, clock, config, caNil, caCert, caKey, secretRet, mgr, pc, runs, got,
                   pcr, plan,
                   rdCert, rdKey, attempts, conflicts, apiErr, failure, ret, metricVars>>

(* --------------------------- specification ---------------------------- *)
DefaultConfig == [isNil |-> FALSE, CertValidity |-> Hour, CertRefreshBefore |-> 30 * Minute]

Request(signer, key, maxExp) ==
    [ spec |-> [ SignerName |-> signer, PodName |-> "test-pod", PKIXPublicKey |-> key,
                 ProofOfPossession |-> GeneratedProof(key), MaxExpirationSeconds |-> maxExp ],
      resourceVersion |-> 1, status |-> EmptyStatus ]

InitWorkers ==
    /\ pc = [p \in Workers |-> "idle"]
    /\ runs = 0
    /\ got = [p \in Workers |-> NoPcr]
    /\ pcr = [p \in Workers |-> NoPcr]
    /\ plan = [p \in Workers |-> NoPlan]
    /\ rdCert = [p \in Workers |-> 0]
    /\ rdKey = [p \in Workers |-> 0]
    /\ attempts = [p \in Workers |-> 0]
    /\ conflicts = [p \in Workers |-> 0]
    /\ apiErr = [p \in Workers |-> "nil"]
    /\ failure = [p \in Workers |-> NoFailure]
    /\ ret = [p \in Workers |-> NoReturn]
    /\ IssuedCounter = <<>>
    /\ FailedCounter = <<>>

\* The state after CreateManager: the CA loaded from the secret (generation 1), or a
\* reconciler built without a CA; one request in the store, no status yet.
Init ==
    /\ \E signer \in {OwnSignerName, OtherSignerName}, key \in KeyBytes :
          store = Request(signer, key, Nil)
    /\ present = TRUE
    /\ externals = 0
    /\ faults = {}
    /\ clock = 0
    /\ config = DefaultConfig
    /\ caNil \in BOOLEAN
    /\ caCert = IF caNil THEN 0 ELSE 1
    /\ caKey = IF caNil THEN 0 ELSE 1
    /\ secret = [kind |-> "ok", gen |-> 1]
    /\ secretRet = NoReturn
    /\ mgr = RunningManager
    /\ InitWorkers

\* The controller and its store: every worker, the reload of a rotated CA secret,
\* and other clients' updates of the request.
Next ==
    \/ \E p \in Workers : Reconcile_Get(p)
    \/ \E p \in Workers : Reconcile_GetCert(p)
    \/ \E p \in Workers : Reconcile_GetKey(p)
    \/ \E p \in Workers : Reconcile_StatusUpdate(p)
    \/ \E p \in Workers : setFailedCondition(p)
    \/ SecretReconciler_Reconcile
    \/ SecretRotate
    \/ ExternalUpdate

Spec == Init /\ [][Next]_vars

\* The CA holder: one worker signing while the CA secret is rotated, broken and
\* reloaded.
InitCA ==
    /\ store = Request(OwnSignerName, [enc |-> "der", alg |-> "rsa"], Nil)
    /\ present = TRUE
    /\ externals = 0
    /\ faults = {}
    /\ clock = 0
    /\ config = DefaultConfig
    /\ caNil = FALSE
    /\ caCert = 1
    /\ caKey = 1
    /\ secret = [kind |-> "ok", gen |-> 1]
    /\ secretRet = NoReturn
    /\ mgr = RunningManager
    /\ InitWorkers

NextCA ==
    \/ Reconcile_Get("w1")
    \/ Reconcile_GetCert("w1")
    \/ Reconcile_GetKey("w1")
    \/ Reconcile_StatusUpdate("w1")
    \/ setFailedCondition("w1")
    \/ SecretReconciler_Reconcile
    \/ SecretRotate
    \/ SecretBreak

SpecCA == InitCA /\ [][NextCA]_vars

\* The signing policy: one worker, every combination of configured durations and
\* of the request's maxExpirationSeconds.
ConfiguredValidities == {0 - Minute, 0, 10 * Minute, Hour, 2 * Hour}
ConfiguredRefreshes == {0 - Minute, 0, 5 * Minute, 20 * Minute, 45 * Minute, 3 * Hour}
MaxExpirations == {Nil, Ptr(0 - Minute), Ptr(0), Ptr(30 * Minute), Ptr(Hour), Ptr(2 * Hour)}

PodNames == {"test-pod", "web-0"}

InitPolicy ==
    /\ \E key \in {[enc |-> "der", alg |-> "rsa"], [enc |-> "der", alg |-> "ecdsa"]},
          maxExp \in MaxExpirations, podName \in PodNames :
          store = [Request(OwnSignerName, key, maxExp) EXCEPT !.spec.PodName = podName]
    /\ present = TRUE
    /\ externals = 0
    /\ faults = {}
    /\ clock = 0
    /\ \/ config = [isNil |-> TRUE, CertValidity |-> 0, CertRefreshBefore |-> 0]
       \/ \E v \in ConfiguredValidities, r \in ConfiguredRefreshes :
             config = [isNil |-> FALSE, CertValidity |-> v, CertRefreshBefore |-> r]
    /\ caNil \in BOOLEAN
    /\ caCert = IF caNil THEN 0 ELSE 1
    /\ caKey = IF caNil THEN 0 ELSE 1
    /\ secret = [kind |-> "ok", gen |-> 1]
    /\ secretRet = NoReturn
    /\ mgr = RunningManager
    /\ InitWorkers

NextPolicy ==
    \/ Reconcile_Get("w1")
    \/ Reconcile_GetCert("w1")
    \/ Reconcile_GetKey("w1")
    \/ Reconcile_StatusUpdate("w1")
    \/ setFailedCondition("w1")

SpecPolicy == InitPolicy /\ [][NextPolicy]_vars

\* The failing API server: two workers on a request that other clients update or
\* delete, against a server that may fail a fetch or a status update.
InitFaults ==
    /\ \E signer \in {OwnSignerName, OtherSignerName},
          key \in {[enc |-> "der", alg |-> "rsa"], [enc |-> "garbage", alg |-> "none"]},
          maxExp \in {Nil, Ptr(30 * Minute)} :
          store = Request(signer, key, maxExp)
    /\ present = TRUE
    /\ externals = 0
    /\ faults = {"GetError", "UpdateError"}
    /\ clock = 0
    /\ config = DefaultConfig
    /\ caNil = FALSE
    /\ caCert = 1
    /\ caKey = 1
    /\ secret = [kind |-> "ok", gen |-> 1]
    /\ secretRet = NoReturn
    /\ mgr = RunningManager
    /\ InitWorkers

NextFaults ==
    \/ \E p \in Workers : Reconcile_Get(p)
    \/ \E p \in Workers : Reconcile_GetCert(p)
    \/ \E p \in Workers : Reconcile_GetKey(p)
    \/ \E p \in Workers : Reconcile_StatusUpdate(p)
    \/ \E p \in Workers : setFailedCondition(p)
    \/ ExternalUpdate
    \/ ExternalDelete

SpecFaults == InitFaults /\ [][NextFaults]_vars

\* The same with the scheduling of the workers: a goroutine inside Reconcile keeps
\* running, so each step after the fetch is eventually taken.
FairWorkers ==
    \A p \in Workers :
        /\ WF_vars(Reconcile_GetCert(p))
        /\ WF_vars(Reconcile_GetKey(p))
        /\ WF_vars(Reconcile_StatusUpdate(p))
        /\ WF_vars(setFailedCondition(p))

SpecFaultsFair == InitFaults /\ [][NextFaults]_vars /\ FairWorkers

\* The caller of Reconcile: the work queue hands the request to one worker at a
\* time, first for the event of its creation and again after every returned error
\* or requeue.
Redeliver(p) ==
    /\ pc[p] = "idle" \/ ret[p].err # "nil" \/ ret[p].Requeue
    /\ Reconcile_Get(p)

\* One worker and the re-deliveries of its caller, on a request that other clients
\* update a bounded number of times; the CA is not reloaded.
InitLive ==
    /\ \E signer \in {OwnSignerName, OtherSignerName}, key \in KeyBytes :
          store = Request(signer, key, Nil)
    /\ present = TRUE
    /\ externals = 0
    /\ faults = {}
    /\ clock = 0
    /\ config = DefaultConfig
    /\ caNil \in BOOLEAN
    /\ caCert = IF caNil THEN 0 ELSE 1
    /\ caKey = IF caNil THEN 0 ELSE 1
    /\ secret = [kind |-> "ok", gen |-> 1]
    /\ secretRet = NoReturn
    /\ mgr = RunningManager
    /\ InitWorkers

NextLive ==
    \/ Redeliver("w1")
    \/ Reconcile_GetCert("w1")
    \/ Reconcile_GetKey("w1")
    \/ Reconcile_StatusUpdate("w1")
    \/ setFailedCondition("w1")
    \/ ExternalUpdate

FairLive ==
    /\ WF_vars(Redeliver("w1"))
    /\ WF_vars(Reconcile_GetCert("w1"))
    /\ WF_vars(Reconcile_GetKey("w1"))
    /\ WF_vars(Reconcile_StatusUpdate("w1"))
    /\ WF_vars(setFailedCondition("w1"))

SpecLive == InitLive /\ [][NextLive]_vars /\ FairLive

\* The proofs a request may carry for its key.
Proofs(key) ==
    {EmptyProof, SomeProof, BlankProof}
        \cup { SignedProof(scheme, FALSE, by, over) :
                  scheme \in {"rsa-pkcs1v15", "ecdsa-raw"}, by \in {"holder", "other"},
                  over \in {key, [enc |-> "der", alg |-> "nonce"]} }
        \cup { SignedProof("ecdsa-asn1", odd, "holder", key) : odd \in BOOLEAN }

\* The signer that verifies the proof of possession itself: two workers on a request
\* with any key and any proof, which another client may update.
InitPOP ==
    /\ \E key \in KeyBytes :
          \E pop \in Proofs(key) :
             store = [Request(OwnSignerName, key, Nil) EXCEPT !.spec.ProofOfPossession = pop]
    /\ present = TRUE
    /\ externals = 0
    /\ faults = {}
    /\ clock = 0
    /\ config = DefaultConfig
    /\ caNil = FALSE
    /\ caCert = 1
    /\ caKey = 1
    /\ secret = [kind |-> "ok", gen |-> 1]
    /\ secretRet = NoReturn
    /\ mgr = RunningManager
    /\ InitWorkers

NextPOP ==
    \/ \E p \in Workers : ReconcilePOP_Get(p)
    \/ \E p \in Workers : ReconcilePOP_GetCert(p)
    \/ \E p \in Workers : ReconcilePOP_GetKey(p)
    \/ \E p \in Workers : ReconcilePOP_StatusUpdate(p)
    \/ ExternalUpdate

SpecPOP == InitPOP /\ [][NextPOP]_vars

\* The process from its start: main builds the manager from every combination of
\* arguments, failing steps and CA secret content; once the manager runs, secrets
\* change, the watcher reloads the CA and one worker signs.
ManagerConfigs ==
    { [SecretConfig EXCEPT !.isNil = TRUE], SecretConfig, [SecretConfig EXCEPT !.CASecretName = ""] }

InitManager ==
    /\ store = Request(OwnSignerName, [enc |-> "der", alg |-> "rsa"], Nil)
    /\ present = TRUE
    /\ externals = 0
    /\ faults = {}
    /\ clock = 0
    /\ config = DefaultConfig
    /\ caNil = TRUE
    /\ caCert = 0
    /\ caKey = 0
    /\ secret \in {[kind |-> "ok", gen |-> 1]} \cup {[kind |-> k, gen |-> 1] : k \in BadSecretKinds}
    /\ secretRet = NoReturn
    /\ \E kubeConfigNil \in BOOLEAN, cfg \in ManagerConfigs, fails \in SUBSET ManagerSteps :
          mgr = NewProcess(kubeConfigNil, cfg, fails)
    /\ InitWorkers

NextManager ==
    \/ main
    \/ SecretEvent
    \/ SecretWatcher_Reconcile
    \/ mgr.phase = "running" /\ Reconcile_Get("w1")
    \/ Reconcile_GetCert("w1")
    \/ Reconcile_GetKey("w1")
    \/ Reconcile_StatusUpdate("w1")
    \/ setFailedCondition("w1")

SpecManager == InitManager /\ [][NextManager]_vars

(* ------------------------------ claims -------------------------------- *)
Returned(p) == pc[p] = "done"
OK == [Requeue |-> FALSE, err |-> "nil"]
Chain(obj) == obj.status.CertificateChain
HasChain(obj) == Chain(obj) # <<>>
NotForUs(obj) == obj.spec.SignerName # OwnSignerName

\* C1: once the stored certificateChain is non-empty, no step of any Reconcile
\* invocation (re-delivered, or racing from a copy fetched while the chain was still
\* empty) changes it.
C1_ChainWrittenOnce ==
    [][HasChain(store) => Chain(store') = Chain(store)]_vars

\* C1 witness: the request is issued while another worker, holding a copy fetched
\* before, has tried to persist its own certificate.
C1_Witness ==
    \E p \in Workers :
        /\ HasChain(store)
        /\ ~HasChain(got[p]) /\ HasChain(pcr[p])
        /\ Chain(pcr[p]) # Chain(store)
        /\ conflicts[p] > 0

\* C2: every signing operation uses a CA certificate and a CA key of the same
\* generation, also when a reload runs between the GetCert and the GetKey read.
C2_SameGeneration ==
    \A p \in Workers : rdKey[p] # 0 => rdCert[p] = rdKey[p]

\* C3: a conflict on the issue-path status update that one concurrent update of the
\* request caused is resolved inside the same Reconcile: the certificate is persisted
\* and Reconcile returns no error and no requeue.
C3_ConflictResolvedInReconcile ==
    \A p \in Workers :
        ( /\ Returned(p)
          /\ HasChain(pcr[p]) /\ ~HasChain(got[p])
          /\ conflicts[p] >= 1
          /\ externals = 1
          /\ store.resourceVersion = got[p].resourceVersion + 1 )
        => (ret[p] = OK /\ Chain(store) = Chain(pcr[p]))

\* C4: the active pair is replaced only by a load in which every step succeeded; a
\* reload that fails (secret not found, field missing, PEM not decodable, certificate
\* or key not parseable) returns its error and leaves the pair as it was.
C4_FailedReloadKeepsCA ==
    [][ /\ (caCert' # caCert \/ caKey' # caKey)
            => ( /\ secret.kind = "ok"
                 /\ caCert' = secret.gen /\ caKey' = secret.gen
                 /\ secretRet' = OK )
        /\ (secretRet' # secretRet /\ secret.kind # "ok")
            => ( /\ secretRet' = [Requeue |-> FALSE, err |-> secret.kind]
                 /\ caCert' = caCert /\ caKey' = caKey ) ]_vars

\* C4 witness: a reload has failed on a broken secret that holds newer material
\* than the pair still active, and a request was signed with that pair.
C4_Witness ==
    /\ secretRet.err \in BadSecretKinds
    /\ secret.kind \in BadSecretKinds
    /\ caCert = 1 /\ caKey = 1 /\ secret.gen = 2
    /\ HasChain(store)

\* C5: a signing operation that starts after a reload to new material has completed
\* reads the new certificate and the new key, never a pair older than the one active
\* when it started.
C5_SignsWithReloadedCA ==
    \A p \in Workers :
        /\ rdCert[p] # 0 => rdCert[p] >= plan[p].startGen
        /\ rdKey[p] # 0 => rdKey[p] >= plan[p].startGen

\* C5 witness: a request issued by an invocation that started after the reload to
\* generation 2.
C5_Witness ==
    \E p \in Workers :
        /\ Returned(p) /\ ret[p] = OK
        /\ plan[p].startGen = 2
        /\ HasChain(store) /\ Chain(store) = Chain(pcr[p])
        /\ Chain(store)[1].Bytes.Issuer = 2 /\ Chain(store)[1].Bytes.SignedBy = 2

\* C6: a Reconcile whose fetched certificateChain is non-empty makes no status update
\* and returns an empty result and no error; the stored status of an issued request
\* stays identical, field by field.
C6_AlreadySignedIsNoOp ==
    /\ [](\A p \in Workers :
            (Returned(p) /\ HasChain(got[p]))
                => (ret[p] = OK /\ attempts[p] = 0))
    /\ [][HasChain(store) => store'.status = store.status]_vars

\* C6 witness: a re-delivered Reconcile has returned on a request it fetched
\* already issued.
C6_Witness ==
    \E p \in Workers :
        /\ Returned(p) /\ HasChain(got[p]) /\ got[p].status = store.status
        /\ runs = MaxRuns

\* C7: a Reconcile of a request for another signer makes no status update and returns
\* an empty result and no error, whatever the public key holds; the stored status
\* keeps no certificate and no conditions.
C7_OtherSignerUntouched ==
    /\ \A p \in Workers :
          (Returned(p) /\ got[p] # NoPcr /\ NotForUs(got[p]))
              => (ret[p] = OK /\ attempts[p] = 0)
    /\ NotForUs(store) => store.status = EmptyStatus

\* C7 witness: a Reconcile has returned on another signer's request whose public
\* key does not parse.
C7_Witness ==
    \E p \in Workers :
        /\ Returned(p) /\ got[p] # NoPcr /\ NotForUs(got[p])
        /\ ParsePKIXPublicKey(got[p].spec.PKIXPublicKey).err

\* C8: after a successful status update of a request (Issued=True or Issued=False),
\* no later step changes the stored status.
C8_StatusWrittenOnce ==
    [][store.status # EmptyStatus => store'.status = store.status]_vars

\* C9: when Reconcile returns after a terminal failure, the stored request carries an
\* Issued=False condition with that reason and a message.
C9_FailureReflected ==
    \A p \in Workers :
        (Returned(p) /\ failure[p].reason # "")
            => /\ Len(store.status.Conditions) = 1
               /\ store.status.Conditions[1].Type = "Issued"
               /\ store.status.Conditions[1].Status = "False"
               /\ store.status.Conditions[1].Reason = failure[p].reason
               /\ store.status.Conditions[1].Message # ""

\* C10: for every configured certValidity and certRefreshBefore, every issued status
\* satisfies notBefore <= beginRefreshAt <= notAfter.
C10_RefreshWithinBounds ==
    HasChain(store)
        => /\ Deref(store.status.NotBefore) <= Deref(store.status.BeginRefreshAt)
           /\ Deref(store.status.BeginRefreshAt) <= Deref(store.status.NotAfter)

\* The timing fields of the stored status and of the stored certificate.
StoredNotBefore == Deref(store.status.NotBefore)
StoredNotAfter == Deref(store.status.NotAfter)
StoredBeginRefreshAt == Deref(store.status.BeginRefreshAt)
StoredCert == Chain(store)[1].Bytes
Uncapped == store.spec.MaxExpirationSeconds = Nil
TenTwenty == [isNil |-> FALSE, CertValidity |-> 10 * 60, CertRefreshBefore |-> 20 * 60]

\* C11 (as stated): with configured validity 10m and configured refresh lead 20m, and
\* no maxExpirationSeconds on the request, the issued status has
\* beginRefreshAt = notBefore.
C11_RefreshAtNotBefore ==
    (HasChain(store) /\ config = TenTwenty /\ Uncapped)
        => StoredBeginRefreshAt = StoredNotBefore

\* C11 (amended): with configured validity 10m and configured refresh lead 20m, and
\* no maxExpirationSeconds on the request, the validity is floored to 1h and the lead
\* to 30m, so the issued status has beginRefreshAt = notBefore + 30m = notAfter - 30m.
C11_RefreshAtHalfHour ==
    (HasChain(store) /\ config = TenTwenty /\ Uncapped)
        => /\ StoredNotAfter = StoredNotBefore + 3600
           /\ StoredBeginRefreshAt = StoredNotBefore + 1800
           /\ StoredBeginRefreshAt = StoredNotAfter - 1800

\* C11 witness: a request issued under validity 10m and refresh lead 20m.
C11_Witness ==
    /\ HasChain(store) /\ config = TenTwenty /\ Uncapped
    /\ StoredBeginRefreshAt > StoredNotBefore

\* C12: for any configured validity below 1 hour, the issued notAfter - notBefore (of
\* the status and of the certificate) is exactly 1 hour, unless the request's
\* maxExpirationSeconds caps it lower, and then it is below 1 hour.
C12_ValidityFloor ==
    (HasChain(store) /\ ~config.isNil /\ config.CertValidity < 3600)
        => IF Uncapped \/ Deref(store.spec.MaxExpirationSeconds) >= 3600
           THEN /\ StoredNotAfter - StoredNotBefore = 3600
                /\ StoredCert.NotAfter - StoredCert.NotBefore = 3600
           ELSE /\ StoredNotAfter - StoredNotBefore < 3600
                /\ StoredCert.NotAfter - StoredCert.NotBefore < 3600

\* C12 witness: a request without a cap issued for one hour under a configured
\* validity of 10 minutes.
C12_Witness ==
    /\ HasChain(store) /\ ~config.isNil /\ config.CertValidity = 600 /\ Uncapped
    /\ config.CertRefreshBefore = 45 * 60
    /\ StoredCert.NotAfter - StoredCert.NotBefore = 3600

\* max(configured validity, 1h), as the claims state it
ClaimedValidity ==
    IF ~config.isNil /\ config.CertValidity > 3600 THEN config.CertValidity ELSE 3600

\* C13: when maxExpirationSeconds is set and smaller than the floored validity, the
\* granted validity is maxExpirationSeconds exactly, also below 1 hour; when it is
\* absent or not smaller, the granted validity is max(configured validity, 1h).
C13_CapIsStrict ==
    HasChain(store)
        => LET granted == StoredNotAfter - StoredNotBefore
               maxExp == store.spec.MaxExpirationSeconds
           IN  /\ granted = StoredCert.NotAfter - StoredCert.NotBefore
               /\ IF maxExp # Nil /\ Deref(maxExp) < ClaimedValidity
                  THEN granted = Deref(maxExp)
                  ELSE granted = ClaimedValidity

\* C13 witness: maxExpirationSeconds = 1800 under a configured validity of 1h grants
\* 30 minutes.
C13_Witness ==
    /\ HasChain(store)
    /\ store.spec.MaxExpirationSeconds = <<1800>>
    /\ ~config.isNil /\ config.CertValidity = 3600
    /\ StoredNotAfter - StoredNotBefore = 1800

\* max(configured certRefreshBefore, 30m), as the claims state it
ClaimedLead ==
    IF ~config.isNil /\ config.CertRefreshBefore > 1800 THEN config.CertRefreshBefore ELSE 1800

\* C14: the effective refresh lead is max(configured certRefreshBefore, 30m), and
\* beginRefreshAt = notAfter - lead whenever that instant is not before notBefore:
\* validity 2h with lead 45m gives notBefore + 1h15m, validity 1h with lead 5m gives
\* notAfter - 30m.
C14_RefreshLead ==
    HasChain(store)
        => /\ (StoredNotAfter - ClaimedLead >= StoredNotBefore)
                => StoredBeginRefreshAt = StoredNotAfter - ClaimedLead
           /\ (Uncapped /\ ~config.isNil /\ config.CertValidity = 7200
                    /\ config.CertRefreshBefore = 2700)
                => StoredBeginRefreshAt = StoredNotBefore + 4500
           /\ (Uncapped /\ ~config.isNil /\ config.CertValidity = 3600
                    /\ config.CertRefreshBefore = 300)
                => StoredBeginRefreshAt = StoredNotAfter - 1800

\* C14 witness: a request issued under validity 2h and refresh lead 45m.
C14_Witness ==
    /\ HasChain(store) /\ Uncapped
    /\ ~config.isNil /\ config.CertValidity = 7200 /\ config.CertRefreshBefore = 2700
    /\ StoredBeginRefreshAt = StoredNotBefore + 4500

\* A returned invocation that went down the issue path as far as its status update.
IssuePathReturned(p) == Returned(p) /\ failure[p].reason = "" /\ attempts[p] > 0

\* C15: when the issue-path status update still conflicts after the bounded retries,
\* Reconcile returns the conflict with Requeue=true; when it fails with another
\* error, Reconcile returns exactly that error with an empty result and makes no
\* further attempt; a failed update never ends in a return without error.
C15_UpdateFailureReported ==
    \A p \in Workers :
        /\ attempts[p] <= 5
        /\ IssuePathReturned(p)
            => /\ apiErr[p] = "Conflict"
                    => /\ ret[p] = [Requeue |-> TRUE, err |-> "Conflict"]
                       /\ attempts[p] = 5 /\ conflicts[p] = 5
               /\ apiErr[p] \notin {"nil", "Conflict"}
                    => /\ ret[p] = [Requeue |-> FALSE, err |-> apiErr[p]]
                       /\ attempts[p] = conflicts[p] + 1
               /\ ret[p].err = "nil" => apiErr[p] = "nil"

\* C15 witness: one worker has exhausted its retries on conflicts, the other has met
\* a non-conflict error after a conflict.
C15_Witness ==
    \E p, q \in Workers :
        /\ IssuePathReturned(p) /\ apiErr[p] = "Conflict" /\ ret[p].Requeue
        /\ IssuePathReturned(q) /\ apiErr[q] = "UpdateError" /\ conflicts[q] >= 1
        /\ ret[q].err = "UpdateError"

\* The stored status carries exactly one condition, Issued=False with the reason and
\* a message.
StoredFailure(reason) ==
    /\ Len(store.status.Conditions) = 1
    /\ store.status.Conditions[1].Type = "Issued"
    /\ store.status.Conditions[1].Status = "False"
    /\ store.status.Conditions[1].Reason = reason
    /\ store.status.Conditions[1].Message # ""

\* A returned invocation that fetched a request for this signer with no certificate.
ProcessedReturned(p) ==
    /\ Returned(p) /\ got[p] # NoPcr
    /\ ~NotForUs(got[p]) /\ ~HasChain(got[p])

\* C16: for a request for this signer, not yet issued, whose publicKey does not parse,
\* Reconcile writes a status whose only condition is Issued=False with reason
\* InvalidPublicKey, writes no certificateChain, and returns a non-nil error.
C16_InvalidPublicKeyRecorded ==
    \A p \in Workers :
        (ProcessedReturned(p) /\ got[p].spec.PKIXPublicKey.enc # "der")
            => /\ StoredFailure("InvalidPublicKey")
               /\ ~HasChain(store) /\ ~HasChain(pcr[p])
               /\ ret[p].err # "nil"

\* C17: when the CA is not initialized or the signature operation fails, Reconcile of
\* a valid unsigned request for this signer records Issued=False with reason
\* SigningFailed, writes no certificateChain, and returns a non-nil error.
C17_SigningFailedRecorded ==
    \A p \in Workers :
        ( /\ ProcessedReturned(p)
          /\ got[p].spec.PKIXPublicKey.enc = "der"
          /\ got[p].spec.PKIXPublicKey.alg \in {"rsa", "ecdsa"}
          /\ (caNil \/ (rdKey[p] # 0 /\ rdCert[p] # rdKey[p])) )
            => /\ StoredFailure("SigningFailed")
               /\ ~HasChain(pcr[p])
               /\ ret[p].err # "nil"

\* C18: a request whose public key parses but is neither RSA nor elliptic-curve is
\* never issued a certificate: Reconcile records Issued=False with reason
\* UnsupportedKeyType and returns a non-nil error.
C18_UnsupportedKeyRecorded ==
    /\ (store.spec.PKIXPublicKey.enc = "der"
            /\ store.spec.PKIXPublicKey.alg \notin {"rsa", "ecdsa"}) => ~HasChain(store)
    /\ \A p \in Workers :
        ( /\ ProcessedReturned(p)
          /\ got[p].spec.PKIXPublicKey.enc = "der"
          /\ got[p].spec.PKIXPublicKey.alg \notin {"rsa", "ecdsa"} )
            => /\ StoredFailure("UnsupportedKeyType")
               /\ ~HasChain(pcr[p])
               /\ ret[p].err # "nil"

\* C19: when the fetch reports not-found, Reconcile returns an empty result and no
\* error; when it fails with another error, Reconcile returns that same error; in both
\* cases it makes no status update and touches neither the issued nor the failed
\* counter.
C19_FetchErrorPropagated ==
    /\ [](\A p \in Workers :
            (Returned(p) /\ got[p] = NoPcr)
                => /\ apiErr[p] # "nil" /\ attempts[p] = 0
                   /\ apiErr[p] = "NotFound" => ret[p] = OK
                   /\ apiErr[p] # "NotFound" => ret[p] = [Requeue |-> FALSE, err |-> apiErr[p]])
    /\ [][\A p \in Workers :
            (runs' # runs /\ pc'[p] = "done" /\ got'[p] = NoPcr)
                => UNCHANGED <<store, present, IssuedCounter, FailedCounter>>]_vars

\* C19 witness: a request was issued and then deleted, and its re-delivery found
\* nothing to fetch.
C19_Witness ==
    \E p \in Workers :
        /\ Returned(p) /\ got[p] = NoPcr /\ apiErr[p] = "NotFound" /\ ret[p] = OK
        /\ ~present /\ HasChain(store)

\* C20: a successful issuance writes, in one status update, a non-empty PEM
\* certificateChain, notBefore, notAfter, beginRefreshAt and exactly one condition, of
\* type Issued with status True; Reconcile then returns an empty result and no error.
C20_IssuedInOneUpdate ==
    [][(~HasChain(store) /\ HasChain(store'))
        => /\ store'.resourceVersion = store.resourceVersion + 1
           /\ Len(Chain(store')) = 1 /\ Chain(store')[1].Type = "CERTIFICATE"
           /\ store'.status.NotBefore # Nil /\ store'.status.NotAfter # Nil
           /\ store'.status.BeginRefreshAt # Nil
           /\ Len(store'.status.Conditions) = 1
           /\ store'.status.Conditions[1].Type = "Issued"
           /\ store'.status.Conditions[1].Status = "True"
           /\ \E p \in Workers :
                 /\ pc[p] = "StatusUpdate" /\ pc'[p] = "done"
                 /\ pcr'[p].status = store'.status
                 /\ ret'[p] = OK ]_vars

\* C20 witness: an invocation has issued the request at its first attempt, over a
\* failure condition an earlier invocation had recorded.
C20_Witness ==
    \E p \in Workers :
        /\ Returned(p) /\ ret[p] = OK /\ attempts[p] = 1
        /\ HasChain(store) /\ store.status = pcr[p].status
        /\ Len(got[p].status.Conditions) = 1

\* The value of a counter at a label, and a counter that went up by exactly one at
\* one label and stayed as it was at every other.
Count(counter, l) == IF l \in DOMAIN counter THEN counter[l] ELSE 0
BumpedAt(old, new, l) ==
    /\ Count(new, l) = Count(old, l) + 1
    /\ \A k \in (DOMAIN old \cup DOMAIN new) \ {l} : Count(new, k) = Count(old, k)
ReconcileStep == \E p \in Workers : pc'[p] # pc[p] \/ attempts'[p] # attempts[p]

\* C24: every Reconcile that ends in Failed(reason) increments the failure counter
\* labelled with that reason, and every successful issuance increments the issued
\* counter labelled with the validity granted, each by exactly one; no other outcome
\* (other signer, already issued, request not found) changes either counter.
C24_CountersFollowOutcomes ==
    [][ /\ \A p \in Workers :
              (pc[p] = "setFailedCondition" /\ pc'[p] = "done")
                  => /\ BumpedAt(FailedCounter, FailedCounter', failure[p].reason)
                     /\ IssuedCounter' = IssuedCounter
        /\ (~HasChain(store) /\ HasChain(store'))
              => /\ BumpedAt(IssuedCounter, IssuedCounter',
                       DurationString(Deref(store'.status.NotAfter)
                                        - Deref(store'.status.NotBefore)))
                 /\ FailedCounter' = FailedCounter
        /\ (FailedCounter' # FailedCounter)
              => \E p \in Workers : pc[p] = "setFailedCondition" /\ pc'[p] = "done"
        /\ (IssuedCounter' # IssuedCounter)
              => (~HasChain(store) /\ HasChain(store')) ]_vars

\* C24 witness: a capped request was issued for 30 minutes and counted once, and its
\* re-delivery, after the request was deleted, counted nothing.
C24_Witness ==
    \E p \in Workers :
        /\ Returned(p) /\ got[p] = NoPcr /\ ~present /\ HasChain(store)
        /\ DOMAIN IssuedCounter = {DurationString(1800)}
        /\ IssuedCounter[DurationString(1800)] = 1
        /\ FailedCounter = <<>>

\* C25: Reconcile never modifies a request's spec and never deletes a request: on
\* every path its only write to the store is one update of the status.
C25_OnlyStatusWritten ==
    [][(ReconcileStep \/ runs' # runs)
        => /\ store'.spec = store.spec
           /\ present' = present
           /\ store' # store => store'.resourceVersion = store.resourceVersion + 1 ]_vars

\* C25 witness: a capped request that another client had updated was issued, and its
\* spec still carries the cap.
C25_Witness ==
    /\ HasChain(store) /\ present /\ externals = 1
    /\ store.spec.MaxExpirationSeconds = <<1800>>
    /\ store.resourceVersion = 3

\* C26: an issued certificate for an RSA public key has KeyUsage digitalSignature and
\* keyEncipherment, for an elliptic-curve public key digitalSignature only; in both
\* cases ExtKeyUsage is exactly clientAuth and serverAuth.
C26_KeyUsageByAlgorithm ==
    HasChain(store)
        => /\ store.spec.PKIXPublicKey.alg = "rsa"
                => StoredCert.KeyUsage = {"DigitalSignature", "KeyEncipherment"}
           /\ store.spec.PKIXPublicKey.alg = "ecdsa"
                => StoredCert.KeyUsage = {"DigitalSignature"}
           /\ store.spec.PKIXPublicKey.alg \in {"rsa", "ecdsa"}
           /\ Len(StoredCert.ExtKeyUsage) = 2
           /\ {StoredCert.ExtKeyUsage[i] : i \in 1..2} = {"ClientAuth", "ServerAuth"}

\* C26 witness: a certificate issued for an RSA key.
C26_Witness ==
    /\ HasChain(store) /\ store.spec.PKIXPublicKey.alg = "rsa"
    /\ "KeyEncipherment" \in StoredCert.KeyUsage

\* C27: for every issued certificate, Subject.CommonName and the only DNS
\* subject-alternative name both equal "<podName>.pod.cluster.local", built from the
\* request's spec.podName.
C27_NameFromPodName ==
    HasChain(store)
        => /\ StoredCert.CommonName = <<store.spec.PodName, ".pod.cluster.local">>
           /\ StoredCert.DNSNames = << <<store.spec.PodName, ".pod.cluster.local">> >>

\* C27 witness: a certificate issued for the pod web-0.
C27_Witness ==
    /\ HasChain(store) /\ store.spec.PodName = "web-0"
    /\ StoredCert.CommonName[1] = "web-0"

\* The status carries all of an issuance or none of it.
AllOrNothing(status) ==
    \/ /\ status.CertificateChain = <<>>
       /\ status.NotBefore = Nil /\ status.NotAfter = Nil /\ status.BeginRefreshAt = Nil
       /\ \A i \in DOMAIN status.Conditions : status.Conditions[i].Status # "True"
    \/ /\ Len(status.CertificateChain) = 1
       /\ status.NotBefore # Nil /\ status.NotAfter # Nil /\ status.BeginRefreshAt # Nil
       /\ Len(status.Conditions) = 1 /\ status.Conditions[1].Status = "True"

\* C30: wherever a Reconcile is abandoned before its status update is acknowledged,
\* the stored request carries no part of an issuance or all of it, and a re-delivered
\* Reconcile leaves the request with exactly one certificate: the one first stored.
C30_AbandonedIsSafe ==
    /\ [](AllOrNothing(store.status))
    /\ [][HasChain(store) => (Len(Chain(store')) = 1 /\ Chain(store')[1] = Chain(store)[1])]_vars

\* C30 witness: one invocation sits abandoned between its signature and the
\* acknowledgement of its update, and the re-delivery to the other worker has issued
\* the request.
C30_Witness ==
    \E p, q \in Workers :
        /\ pc[p] = "StatusUpdate" /\ HasChain(pcr[p])
        /\ Returned(q) /\ ret[q] = OK /\ HasChain(store)
        /\ Chain(store) = Chain(pcr[q]) /\ Chain(store) # Chain(pcr[p])

\* The proof is a signature, made by the holder of the key in the scheme of the key,
\* over the SHA-256 of the request's public-key bytes.
ProofVerifies(spec) ==
    LET pop == spec.ProofOfPossession
    IN  /\ pop.text = "base64" /\ ~pop.odd
        /\ pop.by = "holder" /\ pop.over = spec.PKIXPublicKey
        /\ \/ spec.PKIXPublicKey.alg = "rsa" /\ pop.scheme = "rsa-pkcs1v15"
           \/ spec.PKIXPublicKey.alg = "ecdsa" /\ pop.scheme = "ecdsa-raw"

\* A returned invocation that fetched an unsigned request for this signer with a
\* supported key and a proof that does not verify.
BadProofReturned(p) ==
    /\ ProcessedReturned(p)
    /\ got[p].spec.PKIXPublicKey.enc = "der"
    /\ got[p].spec.PKIXPublicKey.alg \in {"rsa", "ecdsa"}
    /\ ~ProofVerifies(got[p].spec)

\* C22: with proof-of-possession verification enabled, a request whose proof fails
\* verification is never issued a certificate: Reconcile ends in Failed with the
\* verifier's reason, an Issued=False condition is written, and the error is returned.
C22_BadProofFails ==
    /\ ~ProofVerifies(store.spec) => ~HasChain(store)
    /\ \A p \in Workers :
          BadProofReturned(p)
              => /\ ret[p].err # "nil"
                 /\ Len(store.status.Conditions) = 1
                 /\ store.status.Conditions[1].Type = "Issued"
                 /\ store.status.Conditions[1].Status = "False"
                 /\ store.status.Conditions[1].Reason # ""

\* The kinds of error the claims name, by the message of the error.
ErrorKind(err) ==
    CASE err = "nil" -> "none"
      [] err \in {"empty proof of possession", "empty POP signature"} -> "EmptySignature"
      [] err = "failed to decode POP as base64" -> "DecodeError"
      [] err = "unsupported public key type" -> "UnsupportedKeyType"
      [] err \in {"RSA signature verification failed", "ECDSA signature verification failed",
                  "invalid ECDSA signature length (must be even)"} -> "VerificationFailed"
      [] OTHER -> "other"

\* The kind of error the claim gives for a proof and a key, its cases taken in order.
ClaimedKind(spec) ==
    IF spec.ProofOfPossession.text \in {"empty", "blank"} THEN "EmptySignature"
    ELSE IF spec.ProofOfPossession.text # "base64" THEN "DecodeError"
    ELSE IF spec.PKIXPublicKey.alg \notin {"rsa", "ecdsa"} THEN "UnsupportedKeyType"
    ELSE IF ~ProofVerifies(spec) THEN "VerificationFailed"
    ELSE "none"

\* C23: validateProofOfPossession returns an empty-signature error for a zero-length
\* proof, a decode error for a proof that is not base64, an unsupported-key error for
\* a key that is neither RSA nor elliptic-curve, a verification-failed error when the
\* RSA PKCS#1 v1.5 or raw (r, s) ECDSA check over the SHA-256 of the public-key bytes
\* fails, and no error only when the signature verifies; Reconcile returns that error.
C23_ProofVerdicts ==
    /\ \A key \in {k \in KeyBytes : k.enc = "der"} :
          \A pop \in Proofs(key) \cup Proofs(store.spec.PKIXPublicKey) :
             ErrorKind(validateProofOfPossession(pop, ParsePKIXPublicKey(key).type, key))
                = ClaimedKind([PKIXPublicKey |-> key, ProofOfPossession |-> pop])
    /\ \A p \in Workers :
          ( /\ ProcessedReturned(p)
            /\ got[p].spec.PKIXPublicKey.enc = "der"
            /\ got[p].spec.PKIXPublicKey.alg \in {"rsa", "ecdsa"} )
              => /\ ClaimedKind(got[p].spec) # "none"
                    => ErrorKind(ret[p].err) = ClaimedKind(got[p].spec)
                 /\ attempts[p] > 0 => ClaimedKind(got[p].spec) = "none"

\* C23 witness: Reconcile has returned the verification error of an RSA proof that
\* someone other than the holder of the key made.
C23_Witness ==
    \E p \in Workers :
        /\ BadProofReturned(p)
        /\ got[p].spec.PKIXPublicKey.alg = "rsa"
        /\ got[p].spec.ProofOfPossession.scheme = "rsa-pkcs1v15"
        /\ got[p].spec.ProofOfPossession.by = "other"
        /\ ret[p].err = "RSA signature verification failed"

\* The key of the configured CA secret, and whether an event is a create or an update
\* of that secret.
CAKey == [name |-> "ca-secret", namespace |-> "default"]
EventKey(e) == [name |-> e.name, namespace |-> e.namespace]
CreateOrUpdateOfCA(e) == e.kind \in {"Create", "Update"} /\ EventKey(e) = CAKey

\* C21: the secret watcher queues a CA reload for a create or update event exactly
\* when the event's name and namespace both equal the configured CA secret; a delete
\* event and an event for any other secret queue nothing; the event itself leaves
\* the active CA alone, and only the CA secret's key is ever queued.
C21_WatcherFilter ==
    /\ [](mgr.queue \subseteq {CAKey})
    /\ [][mgr'.events # mgr.events =>
            /\ caCert' = caCert /\ caKey' = caKey /\ caNil' = caNil
            /\ mgr'.reloads = mgr.reloads
            /\ IF CreateOrUpdateOfCA(mgr'.ev)
               THEN mgr'.queue = {CAKey}
               ELSE mgr'.queue = mgr.queue]_vars

\* C21 witness: an update of the CA secret to new material was reloaded, and the
\* delete event that followed queued nothing: the CA of generation 2 stays active.
C21_Witness ==
    /\ mgr.events = 2 /\ mgr.reloads = 1
    /\ mgr.ev.kind = "Delete" /\ EventKey(mgr.ev) = CAKey
    /\ secret.kind = "SecretNotFound"
    /\ mgr.queue = {}
    /\ caCert = 2 /\ caKey = 2

\* The inputs with which, by the claim, CreateManager must fail.
MustFail(m, sec) ==
    \/ m.kubeConfigNil
    \/ m.cfg.isNil
    \/ m.cfg.CASecretName # "" /\ sec.kind # "ok"
    \/ m.cfg.CASecretName = "" /\ "newCA" \in m.fails
    \/ m.cfg.CASecretName # "" /\ "watcher" \in m.fails
    \/ "setup" \in m.fails

\* C28: CreateManager loads the CA from the secret and installs the watcher exactly
\* when config.CASecretName is non-empty, and otherwise generates an ephemeral CA and
\* installs no watcher; with a nil kubeConfig or config, a CA that cannot be loaded
\* or generated, or a failing watcher or controller setup it returns an error and no
\* manager; a running process always holds a CA with a certificate and a key.
C28_ManagerNeedsCA ==
    /\ [](mgr.phase = "running" =>
            /\ ~caNil /\ caCert # 0 /\ caKey # 0
            /\ mgr.err = "nil"
            /\ IF mgr.cfg.CASecretName # ""
               THEN mgr.source = "secret" /\ mgr.watcher
               ELSE mgr.source = "ephemeral" /\ ~mgr.watcher)
    /\ [](mgr.phase = "failed" => mgr.err # "nil" /\ ~mgr.watcher /\ caNil)
    /\ [][(mgr.phase = "new" /\ mgr'.phase # "new") =>
            /\ MustFail(mgr, secret) => mgr'.phase = "failed"
            /\ (mgr'.phase = "running" /\ mgr.cfg.CASecretName # "")
                  => (caCert' = secret.gen /\ caKey' = secret.gen)
            /\ (mgr'.phase = "running" /\ mgr.cfg.CASecretName = "")
                  => (caCert' # secret.gen /\ caKey' = caCert')]_vars

\* C28 witness: the named CA secret could not be loaded, and the process has ended
\* with the error instead of running.
C28_Witness ==
    /\ mgr.phase = "failed"
    /\ ~mgr.kubeConfigNil /\ ~mgr.cfg.isNil /\ mgr.fails = {}
    /\ mgr.cfg.CASecretName = "ca-secret"
    /\ secret.kind = "PEMDecodeError"
    /\ mgr.err = "failed to load CA from secret"
    /\ caNil

Running(p) == pc[p] \notin {"idle", "done"}

\* C31: every Reconcile invocation terminates after a bounded number of status-update
\* attempts: at most 5 on the issue path and exactly 1 on a failure path; an issue-path
\* attempt that meets a non-conflict error is the last one.
C31_BoundedAttempts ==
    /\ [](\A p \in Workers :
            /\ attempts[p] <= 5
            /\ pc[p] = "setFailedCondition" => attempts[p] = 0
            /\ (Returned(p) /\ failure[p].reason # "") => attempts[p] = 1)
    /\ [][\A p \in Workers :
            ( /\ failure[p].reason = "" /\ attempts'[p] = attempts[p] + 1
              /\ apiErr'[p] \notin {"nil", "Conflict"} )
                => (pc'[p] = "done" /\ attempts'[p] = conflicts'[p] + 1)]_vars
    /\ \A p \in Workers : Running(p) ~> Returned(p)

\* C31 witness: an invocation has returned from the issue path after five attempts,
\* all of them conflicts.
C31_Witness ==
    \E p \in Workers :
        /\ Returned(p) /\ failure[p].reason = "" /\ HasChain(pcr[p])
        /\ attempts[p] = 5 /\ conflicts[p] = 5
        /\ ret[p].err = "Conflict"

\* A request for this signer whose public key is a DER-encoded RSA or elliptic-curve key.
Signable(obj) ==
    /\ obj.spec.SignerName = OwnSignerName
    /\ obj.spec.PKIXPublicKey.enc = "der"
    /\ obj.spec.PKIXPublicKey.alg \in {"rsa", "ecdsa"}

\* C32: under fair re-delivery and finitely many conflicting concurrent updates, a
\* request for this signer with a valid RSA or elliptic-curve public key and an
\* initialized CA eventually has a non-empty certificateChain.
C32_EventuallyIssued ==
    (Signable(store) /\ ~caNil) ~> HasChain(store)

\* C32 witness: the first invocation lost its five attempts to another client's
\* update, and the re-delivered one, with a fresh fetch, issued the certificate.
C32_Witness ==
    /\ Signable(store) /\ ~caNil
    /\ runs = 2 /\ externals = 1
    /\ Returned("w1") /\ ret["w1"] = OK
    /\ got["w1"].resourceVersion = 2 /\ ~HasChain(got["w1"])
    /\ HasChain(store) /\ Chain(store) = Chain(pcr["w1"])

\* The validation or signing error a request meets first.
OriginatingError(obj) ==
    IF obj.spec.PKIXPublicKey.enc # "der" THEN "failed to parse PKIX public key"
    ELSE IF obj.spec.PKIXPublicKey.alg \notin {"rsa", "ecdsa"} THEN "unsupported public key type"
    ELSE IF caNil THEN "CA not initialized"
    ELSE "CreateCertificate"

\* The errors a status update can end with.
UpdateErrors == {"Conflict", "NotFound", "UpdateError"}

\* C33: on every Failed(reason) path Reconcile returns the originating validation or
\* signing error with an empty result, whether the status update of the failure
\* condition succeeded, conflicted or failed; the error of that update is never
\* returned in its place and the outcome is never success.
C33_OriginatingErrorReturned ==
    \A p \in Workers :
        (Returned(p) /\ failure[p].reason # "")
            => /\ apiErr[p] \in {"nil"} \cup UpdateErrors
               /\ ret[p] = [Requeue |-> FALSE, err |-> OriginatingError(got[p])]
               /\ ret[p].err \notin {"nil"} \cup UpdateErrors

\* C33 witness: one invocation has returned the parse error after its failure
\* condition was refused with a conflict, the other after the update failed with
\* another error.
C33_Witness ==
    \E p, q \in Workers :
        /\ Returned(p) /\ failure[p].reason = "InvalidPublicKey" /\ apiErr[p] = "Conflict"
        /\ ret[p].err = "failed to parse PKIX public key"
        /\ Returned(q) /\ failure[q].reason = "InvalidPublicKey" /\ apiErr[q] = "UpdateError"
        /\ ret[q].err = "failed to parse PKIX public key"

\* The status an invocation holds in its local copy carries a certificate that the
\* fetched request did not carry: the invocation has signed.
Signed(p) == HasChain(pcr[p]) /\ ~HasChain(got[p])

\* C34: within one invocation the certificate is signed at most once, before the
\* first status-update attempt; every retry re-submits the identical certificate,
\* serial number, timing fields and condition; an invocation that ends in a filter or
\* in a validation failure has not read the CA and holds no certificate of its own.
C34_SignedOnce ==
    /\ [](\A p \in Workers :
            /\ (Returned(p) /\ got[p] # NoPcr /\ (NotForUs(got[p]) \/ HasChain(got[p])))
                  => (rdCert[p] = 0 /\ rdKey[p] = 0 /\ pcr[p].status = got[p].status)
            /\ (Returned(p) /\ failure[p].reason \in {"InvalidPublicKey", "UnsupportedKeyType"})
                  => (rdCert[p] = 0 /\ rdKey[p] = 0 /\ ~HasChain(pcr[p]))
            /\ Signed(p) => Chain(pcr[p])[1].Bytes.SerialNumber = plan[p].serial)
    /\ [][\A p \in Workers :
            /\ (~Signed(p) /\ Signed(p)') => (attempts[p] = 0 /\ attempts'[p] = 0)
            /\ (Signed(p) /\ runs' = runs) => pcr'[p].status = pcr[p].status]_vars

\* C34 witness: an invocation is between two attempts of its status update, the first
\* refused with a conflict, holding the certificate it signed before the first.
C34_Witness ==
    \E p \in Workers :
        /\ pc[p] = "StatusUpdate" /\ Signed(p)
        /\ attempts[p] = 3 /\ conflicts[p] = 3
        /\ Chain(pcr[p])[1].Bytes.SerialNumber = plan[p].serial

\* Some condition of the status says Issued=False.
HasIssuedFalse(status) ==
    \E i \in DOMAIN status.Conditions :
        status.Conditions[i].Type = "Issued" /\ status.Conditions[i].Status = "False"

\* C35: in every reachable state a stored request with a certificateChain has
\* notBefore, notAfter and beginRefreshAt set and exactly one condition, Issued=True;
\* no stored request carries both a certificateChain and an Issued=False condition,
\* however failing and succeeding invocations interleave.
C35_IssuedStatusWhole ==
    HasChain(store)
        => /\ store.status.NotBefore # Nil
           /\ store.status.NotAfter # Nil
           /\ store.status.BeginRefreshAt # Nil
           /\ Len(store.status.Conditions) = 1
           /\ store.status.Conditions[1].Type = "Issued"
           /\ store.status.Conditions[1].Status = "True"
           /\ ~HasIssuedFalse(store.status)

\* C35 witness: an invocation that failed to sign has stored its Issued=False
\* condition, and the request was issued afterwards.
C35_Witness ==
    \E p \in Workers :
        /\ Returned(p) /\ failure[p].reason = "SigningFailed" /\ apiErr[p] = "nil"
        /\ HasChain(store)
        /\ store.status.Conditions[1].Status = "True"

\* C36: for every value of the request's maxExpirationSeconds, zero and negative
\* values included, the issued status and certificate satisfy
\* notBefore <= beginRefreshAt <= notAfter.
C36_BoundsForEveryCap ==
    (HasChain(store) /\ store.spec.MaxExpirationSeconds # Nil)
        => /\ StoredNotBefore <= StoredBeginRefreshAt
           /\ StoredBeginRefreshAt <= StoredNotAfter
           /\ StoredCert.NotBefore <= StoredBeginRefreshAt
           /\ StoredBeginRefreshAt <= StoredCert.NotAfter

\* The check that decides a fetched request, in the order fetch, signer name, already
\* issued, public-key parse, key type, CA initialized, sign.
FirstCheck(obj) ==
    IF obj.spec.SignerName # OwnSignerName THEN "OtherSigner"
    ELSE IF obj.status.CertificateChain # <<>> THEN "AlreadyIssued"
    ELSE IF obj.spec.PKIXPublicKey.enc # "der" THEN "InvalidPublicKey"
    ELSE IF obj.spec.PKIXPublicKey.alg \notin {"rsa", "ecdsa"} THEN "UnsupportedKeyType"
    ELSE IF caNil THEN "CANotInitialized"
    ELSE "Sign"

RECURSIVE SumOver(_, _)
SumOver(counter, labels) ==
    IF labels = {} THEN 0
    ELSE LET l == CHOOSE l \in labels : TRUE
         IN  counter[l] + SumOver(counter, labels \ {l})
Total(counter) == SumOver(counter, DOMAIN counter)

ValidityUnset == config.isNil \/ config.CertValidity <= 0
RefreshUnset == config.isNil \/ config.CertRefreshBefore <= 0
OneHourLabel == [neg |-> FALSE, units |-> <<1, 0, 0>>]

\* C39: a reconciler with a nil Config, or with a Config whose CertValidity (or
\* CertRefreshBefore) is zero or negative, issues with validity 1h (refresh lead 30m)
\* and counts the issuance under the label "1h0m0s", as with the documented defaults
\* of 1h and 30m.
C39_DefaultsForUnset ==
    HasChain(store)
        => /\ (ValidityUnset /\ Uncapped)
                => /\ StoredNotAfter - StoredNotBefore = 3600
                   /\ StoredCert.NotAfter - StoredCert.NotBefore = 3600
                   /\ DOMAIN IssuedCounter = {OneHourLabel}
                   /\ IssuedCounter[OneHourLabel] = 1
           /\ RefreshUnset
                => StoredBeginRefreshAt =
                      IF StoredNotAfter - 1800 < StoredNotBefore
                      THEN StoredNotBefore ELSE StoredNotAfter - 1800
           /\ (ValidityUnset /\ RefreshUnset /\ Uncapped)
                => StoredBeginRefreshAt = StoredNotBefore + 1800

\* C39 witness: a reconciler whose Config sets a negative validity and a negative
\* refresh lead has issued an uncapped request for one hour.
C39_Witness ==
    /\ HasChain(store) /\ Uncapped
    /\ ~config.isNil /\ config.CertValidity < 0 /\ config.CertRefreshBefore < 0
    /\ StoredNotAfter - StoredNotBefore = 3600
    /\ StoredBeginRefreshAt = StoredNotBefore + 1800
    /\ IssuedCounter[OneHourLabel] = 1

====
